---- MODULE Spec2Model ----
(***************************************************************************)
(* Model of crowdstrike/cloud/sensor-helm-install.py: the planning loop of *)
(* main() and the plan executor execute_commands_wizard().                 *)
(*                                                                         *)
(* Strings that the program takes apart (image tags) are sequences of      *)
(* one-character strings; strings it only compares or joins are TLA+       *)
(* strings.                                                                *)
(***************************************************************************)
EXTENDS Integers, Sequences, FiniteSets, TLC

(***************************************************************************)
(* Bounds of the model.                                                    *)
(***************************************************************************)
\* longest list accepted after --component (argparse nargs='+')
MaxSel == 2

(***************************************************************************)
(* Generic helpers.                                                        *)
(***************************************************************************)
\* Python's None where a string is expected
None == "None"

\* None where an image tag is expected (tags are sequences of characters)
NoTag == <<"None">>

\* None where a dictionary or a dataclass is expected
NoDict == <<>>

Range(s) == {s[i] : i \in 1..Len(s)}

RECURSIVE SeqsUpTo(_, _)
SeqsUpTo(S, n) ==
    IF n = 0 THEN {<<>>}
    ELSE LET shorter == SeqsUpTo(S, n - 1)
         IN  shorter \cup {Append(s, x) : s \in {t \in shorter : Len(t) = n - 1}, x \in S}

RECURSIVE Concat(_)
Concat(ss) == IF ss = <<>> THEN <<>> ELSE Head(ss) \o Concat(Tail(ss))

\* sep.join(parts) on Python strings
RECURSIVE Join(_, _)
Join(sep, parts) ==
    IF parts = <<>> THEN ""
    ELSE IF Len(parts) = 1 THEN parts[1]
    ELSE parts[1] \o sep \o Join(sep, Tail(parts))

(***************************************************************************)
(* Constants of the program.                                               *)
(***************************************************************************)
\* class FalconComponent(Enum), in definition order
FalconComponent == <<"SENSOR", "KAC", "IAR">>

Components == Range(FalconComponent)

\* list(FalconComponent).index(c)
EnumIndex(c) == CHOOSE i \in 1..Len(FalconComponent) : FalconComponent[i] = c

LATEST_IMAGE_TAG_KEYWORD == <<"l", "a", "t", "e", "s", "t">>

KUBE_ROLLOUT_TIMEOUT == "120s"

KUBE_LOGS_TAIL_LINES == "50"

K8S_ENFORCE_LABEL == "pod-security.kubernetes.io/enforce=privileged"

K8S_AUDIT_LABEL == "pod-security.kubernetes.io/audit=privileged"

K8S_WARN_LABEL == "pod-security.kubernetes.io/warn=privileged"

(***************************************************************************)
(* Version tuples.                                                         *)
(***************************************************************************)
Digits == {"0", "1", "2", "3", "4", "5", "6", "7", "8", "9"}

DigitVal ==
    "0" :> 0 @@ "1" :> 1 @@ "2" :> 2 @@ "3" :> 3 @@ "4" :> 4 @@
    "5" :> 5 @@ "6" :> 6 @@ "7" :> 7 @@ "8" :> 8 @@ "9" :> 9

\* str.split(sep) for a one-character separator: always at least one field
RECURSIVE Split(_, _)
Split(s, sep) ==
    IF \A i \in 1..Len(s) : s[i] # sep THEN <<s>>
    ELSE LET k == CHOOSE i \in 1..Len(s) :
                      s[i] = sep /\ \A j \in 1..(i - 1) : s[j] # sep
         IN  <<SubSeq(s, 1, k - 1)>> \o Split(SubSeq(s, k + 1, Len(s)), sep)

\* int(s) succeeds: over the alphabet of the model (digits, letters, '.',
\* '-') that is a non-empty string of digits
IsInt(s) == Len(s) > 0 /\ \A i \in 1..Len(s) : s[i] \in Digits

RECURSIVE IntOf(_)
IntOf(s) == IF s = <<>> THEN 0 ELSE 10 * IntOf(SubSeq(s, 1, Len(s) - 1)) + DigitVal[s[Len(s)]]

\* mutant: the "-suffix" is not removed before parsing
version_to_tuple_keeps_suffix(v) ==
    LET parts == Split(v, ".")
    IN  IF \A i \in 1..Len(parts) : IsInt(parts[i])
        THEN [i \in 1..Len(parts) |-> IntOf(parts[i])]
        ELSE <<0>>

\* version_to_tuple: tuple(map(int, v.split('-')[0].split('.'))), (0,) when
\* int() raises ValueError
version_to_tuple(v) ==
    LET parts == Split(Split(v, "-")[1], ".")
    IN  IF \A i \in 1..Len(parts) : IsInt(parts[i])
        THEN [i \in 1..Len(parts) |-> IntOf(parts[i])]
        ELSE <<0>>

\* Python's a < b on tuples of integers
RECURSIVE TupleLess(_, _)
TupleLess(a, b) ==
    IF b = <<>> THEN FALSE
    ELSE IF a = <<>> THEN TRUE
    ELSE IF Head(a) # Head(b) THEN Head(a) < Head(b)
    ELSE TupleLess(Tail(a), Tail(b))

TupleLeq(a, b) == a = b \/ TupleLess(a, b)

\* sorted(xs, key=version_to_tuple, reverse=True): stable, so equal keys keep
\* their order in xs
RECURSIVE InsertDesc(_, _)
InsertDesc(x, sorted) ==
    IF sorted = <<>> THEN <<x>>
    ELSE IF TupleLess(version_to_tuple(Head(sorted)), version_to_tuple(x))
         THEN <<x>> \o sorted
         ELSE <<Head(sorted)>> \o InsertDesc(x, Tail(sorted))

RECURSIVE SortedDesc(_)
SortedDesc(xs) ==
    IF xs = <<>> THEN <<>>
    ELSE InsertDesc(xs[Len(xs)], SortedDesc(SubSeq(xs, 1, Len(xs) - 1)))

RECURSIVE SelectSeqOf(_, _)
SelectSeqOf(xs, S) ==
    IF xs = <<>> THEN <<>>
    ELSE (IF Head(xs) \in S THEN <<Head(xs)>> ELSE <<>>) \o SelectSeqOf(Tail(xs), S)

\* the result of get_latest_image_tag when it raises APIError
APIError == <<"APIError">>

\* mutant: a failed request is answered with None like a malformed answer
get_latest_image_tag_swallows(response) ==
    IF ~response.ok THEN NoTag
    ELSE IF \E i \in 1..Len(response.tags) : response.tags[i] = <<>> THEN NoTag
    ELSE LET versioned_tags ==
                 SortedDesc(SelectSeqOf(response.tags,
                     {t \in Range(response.tags) :
                          t # LATEST_IMAGE_TAG_KEYWORD /\ t[1] \in Digits}))
         IN  IF versioned_tags # <<>> THEN versioned_tags[1] ELSE NoTag

\* get_latest_image_tag, given the outcome of the tags/list request:
\* APIError when the request fails, None when no candidate is left or when
\* t[0] raises IndexError on an empty tag, else the first of the sorted tags
get_latest_image_tag(response) ==
    IF ~response.ok THEN APIError
    ELSE IF \E i \in 1..Len(response.tags) : response.tags[i] = <<>> THEN NoTag
    ELSE LET versioned_tags ==
                 SortedDesc(SelectSeqOf(response.tags,
                     {t \in Range(response.tags) :
                          t # LATEST_IMAGE_TAG_KEYWORD /\ t[1] \in Digits}))
         IN  IF versioned_tags # <<>> THEN versioned_tags[1] ELSE NoTag

(***************************************************************************)
(* Commands and component strategies.                                      *)
(***************************************************************************)
\* @dataclass Command, with its defaults is_verification=False,
\* capture_output=True, can_fail=False filled in by the callers below
Command(component, description, cmd_list, is_verification, capture_output, can_fail) ==
    [component       |-> component,
     description     |-> description,
     cmd_list        |-> cmd_list,
     is_verification |-> is_verification,
     capture_output  |-> capture_output,
     can_fail        |-> can_fail]

release_name(c) ==
    CASE c = "SENSOR" -> "falcon-sensor"
      [] c = "KAC"    -> "falcon-kac"
      [] c = "IAR"    -> "falcon-imageanalyzer"

chart_name(c) ==
    IF c = "IAR" THEN "crowdstrike/falcon-image-analyzer"
    ELSE "crowdstrike/" \o release_name(c)

default_namespace(c) ==
    CASE c = "SENSOR" -> "falcon-system"
      [] c = "KAC"    -> "falcon-kac"
      [] c = "IAR"    -> "falcon-imageanalyzer"

\* the component's display name, FalconComponent.value
component_value(c) ==
    CASE c = "SENSOR" -> "Falcon Sensor"
      [] c = "KAC"    -> "Kubernetes Admission Controller"
      [] c = "IAR"    -> "Image Assessment at Runtime"

\* mutant: the image analyzer is a deployment whatever its mode
get_workload_type_modeless(c, comp_cfg) == IF c = "SENSOR" THEN "daemonset" ELSE "deployment"

get_workload_type(c, comp_cfg) ==
    CASE c = "SENSOR" -> "daemonset"
      [] c = "KAC"    -> "deployment"
      [] c = "IAR"    -> IF comp_cfg.iar_mode = "socket" THEN "daemonset" ELSE "deployment"

NamespaceCommands(c, comp_cfg) ==
    << Command(c, "Create namespace",
               <<"kubectl", "create", "namespace", comp_cfg.namespace>>,
               FALSE, FALSE, TRUE),
       Command(c, "Label namespace (enforce)",
               <<"kubectl", "label", "ns", "--overwrite", comp_cfg.namespace, K8S_ENFORCE_LABEL>>,
               FALSE, FALSE, FALSE),
       Command(c, "Label namespace (audit)",
               <<"kubectl", "label", "ns", "--overwrite", comp_cfg.namespace, K8S_AUDIT_LABEL>>,
               FALSE, FALSE, FALSE),
       Command(c, "Label namespace (warn)",
               <<"kubectl", "label", "ns", "--overwrite", comp_cfg.namespace, K8S_WARN_LABEL>>,
               FALSE, FALSE, FALSE) >>

\* mutant: the admission controller gets the namespace commands as well
get_pre_install_commands_all(c, comp_cfg) == NamespaceCommands(c, comp_cfg)

get_pre_install_commands(c, comp_cfg) ==
    IF c = "KAC" THEN <<>> ELSE NamespaceCommands(c, comp_cfg)

\* out_path = CONFIG_DIR / f"{strategy.release_name}-values.yml"
values_path(c) == release_name(c) \o "-values.yml"

get_helm_command(c, comp_cfg, out_path) ==
    Command(c, "Deploy " \o component_value(c) \o " with Helm",
            <<"helm", "upgrade", "--install", release_name(c), chart_name(c),
              "-n", comp_cfg.namespace, "--create-namespace", "-f", out_path>>,
            FALSE, FALSE, FALSE)

get_verification_commands(c, comp_cfg) ==
    LET workload_type == get_workload_type(c, comp_cfg)
    IN  (IF workload_type # None
         THEN << Command(c, "Wait for " \o workload_type \o " to be ready",
                         <<"kubectl", "rollout", "status",
                           workload_type \o "/" \o release_name(c),
                           "-n", comp_cfg.namespace,
                           "--timeout=" \o KUBE_ROLLOUT_TIMEOUT>>,
                         TRUE, FALSE, FALSE) >>
         ELSE <<>>)
        \o
        << Command(c, "Check container logs",
                   <<"kubectl", "logs", "-n=" \o comp_cfg.namespace, "-l",
                     "app.kubernetes.io/name=" \o release_name(c),
                     "--tail=" \o KUBE_LOGS_TAIL_LINES>>,
                   TRUE, TRUE, FALSE) >>

\* mutant: a key the dictionary already has keeps its value (setdefault)
DictUpdate_keeps(values, extra) ==
    [k \in DOMAIN values \cup DOMAIN extra |->
        IF k \in DOMAIN values THEN values[k] ELSE extra[k]]

\* dict.update: every key of the overlay replaces the rendered key
DictUpdate(values, extra) ==
    [k \in DOMAIN values \cup DOMAIN extra |->
        IF k \in DOMAIN extra THEN extra[k] ELSE values[k]]

\* the "image" dictionary of the three payloads
ImageSpec(comp_cfg, parent_cfg) ==
    LET image == [repository |-> comp_cfg.image_repo,
                  tag        |-> comp_cfg.image_tag,
                  pullPolicy |-> "Always"]
    IN  IF parent_cfg.registry_token # ""
        THEN DictUpdate(image, [registryConfigJSON |-> parent_cfg.registry_token])
        ELSE image

SensorValues(comp_cfg, parent_cfg, no_sensitive) ==
    DictUpdate([falcon |-> [cid |-> parent_cfg.cid],
                node   |-> [enabled |-> TRUE,
                            image   |-> ImageSpec(comp_cfg, parent_cfg),
                            backend |-> comp_cfg.backend]],
               comp_cfg.extra_values)

KACValues(comp_cfg, parent_cfg, no_sensitive) ==
    DictUpdate([falcon      |-> [cid |-> parent_cfg.cid],
                image       |-> ImageSpec(comp_cfg, parent_cfg),
                clusterName |-> comp_cfg.cluster_name],
               comp_cfg.extra_values)

\* mutant: the test "if not no_sensitive" is missing
IARValues_always_secret(comp_cfg, parent_cfg, no_sensitive) ==
    LET base   == [cid          |-> parent_cfg.cid,
                   clientID     |-> parent_cfg.client_id,
                   agentRegion  |-> parent_cfg.cloud_region,
                   clusterName  |-> comp_cfg.cluster_name,
                   clientSecret |-> parent_cfg.client_secret]
        values == [image |-> ImageSpec(comp_cfg, parent_cfg), crowdstrikeConfig |-> base]
        moded  == CASE comp_cfg.iar_mode = "watcher" ->
                         DictUpdate(values,
                             [deployment |-> [enabled |-> TRUE],
                              daemonset  |-> [enabled |-> FALSE]])
                    [] comp_cfg.iar_mode = "socket" ->
                         DictUpdate(values,
                             [deployment |-> [enabled |-> FALSE],
                              daemonset  |-> [enabled |-> TRUE],
                              crowdstrikeConfig |->
                                  DictUpdate(base, [agentRuntime |-> comp_cfg.iar_runtime])])
                    [] OTHER -> values
    IN  DictUpdate(moded, comp_cfg.extra_values)

\* mutant: "socket" mode leaves the deployment enabled
IARValues_socket_keeps_deployment(comp_cfg, parent_cfg, no_sensitive) ==
    LET base   == [cid         |-> parent_cfg.cid,
                   clientID    |-> parent_cfg.client_id,
                   agentRegion |-> parent_cfg.cloud_region,
                   clusterName |-> comp_cfg.cluster_name]
        secret == IF ~no_sensitive
                  THEN DictUpdate(base, [clientSecret |-> parent_cfg.client_secret])
                  ELSE base
        values == [image |-> ImageSpec(comp_cfg, parent_cfg), crowdstrikeConfig |-> secret]
        moded  == CASE comp_cfg.iar_mode = "watcher" ->
                         DictUpdate(values,
                             [deployment |-> [enabled |-> TRUE],
                              daemonset  |-> [enabled |-> FALSE]])
                    [] comp_cfg.iar_mode = "socket" ->
                         DictUpdate(values,
                             [deployment |-> [enabled |-> TRUE],
                              daemonset  |-> [enabled |-> TRUE],
                              crowdstrikeConfig |->
                                  DictUpdate(secret, [agentRuntime |-> comp_cfg.iar_runtime])])
                    [] OTHER -> values
    IN  DictUpdate(moded, comp_cfg.extra_values)

IARValues(comp_cfg, parent_cfg, no_sensitive) ==
    LET base   == [cid         |-> parent_cfg.cid,
                   clientID    |-> parent_cfg.client_id,
                   agentRegion |-> parent_cfg.cloud_region,
                   clusterName |-> comp_cfg.cluster_name]
        secret == IF ~no_sensitive
                  THEN DictUpdate(base, [clientSecret |-> parent_cfg.client_secret])
                  ELSE base
        values == [image |-> ImageSpec(comp_cfg, parent_cfg), crowdstrikeConfig |-> secret]
        moded  == CASE comp_cfg.iar_mode = "watcher" ->
                         DictUpdate(values,
                             [deployment |-> [enabled |-> TRUE],
                              daemonset  |-> [enabled |-> FALSE]])
                    [] comp_cfg.iar_mode = "socket" ->
                         DictUpdate(values,
                             [deployment |-> [enabled |-> FALSE],
                              daemonset  |-> [enabled |-> TRUE],
                              crowdstrikeConfig |->
                                  DictUpdate(secret, [agentRuntime |-> comp_cfg.iar_runtime])])
                    [] OTHER -> values
    IN  DictUpdate(moded, comp_cfg.extra_values)

to_values_dict(c, comp_cfg, parent_cfg, no_sensitive) ==
    CASE c = "SENSOR" -> SensorValues(comp_cfg, parent_cfg, no_sensitive)
      [] c = "KAC"    -> KACValues(comp_cfg, parent_cfg, no_sensitive)
      [] c = "IAR"    -> IARValues(comp_cfg, parent_cfg, no_sensitive)

\* the image spec a rendered payload carries: values["node"]["image"] for the
\* sensor chart, values["image"] for the other two
PayloadImage(c, values) == IF c = "SENSOR" THEN values.node.image ELSE values.image

(***************************************************************************)
(* Inputs of a run: image tags, registry answers, configuration files.     *)
(***************************************************************************)
T_7_1_9 == <<"7", ".", "1", ".", "9">>

T_7_2_0 == <<"7", ".", "2", ".", "0">>

T_7_10_0 == <<"7", ".", "1", "0", ".", "0">>

T_rc == <<"7", ".", "2", ".", "0", "-", "r", "c", "1">>

T_garbage == <<"g", "a", "r", "b", "a", "g", "e">>

\* answers of the registry's tags/list request: a list of tags, or the
\* request fails
TagResponses ==
    { [ok |-> FALSE, tags |-> <<>>],
      [ok |-> TRUE, tags |-> <<>>],
      [ok |-> TRUE, tags |-> <<LATEST_IMAGE_TAG_KEYWORD, T_garbage>>],
      [ok |-> TRUE, tags |-> <<T_7_2_0, LATEST_IMAGE_TAG_KEYWORD, T_7_10_0, T_7_1_9>>] }

\* values.get(...).get("tag") of the installed release, None when unknown
InstalledTags == {NoTag, T_7_2_0, T_7_10_0}

\* extra_values overlays of a component: none, one on a key the chart does
\* not render, one that replaces the key holding the image spec
OverlayImage(c) ==
    IF c = "SENSOR"
    THEN [node |-> [image |-> [repository |-> "mirror", tag |-> T_7_1_9]]]
    ELSE [image |-> [repository |-> "mirror", tag |-> T_7_1_9]]

ExtraValues(c) == { <<>>, OverlayImage(c) }

ComponentConfig(c, image_tag, iar_mode, extra_values) ==
    [namespace    |-> default_namespace(c),
     image_tag    |-> image_tag,
     image_repo   |-> "",
     backend      |-> IF c = "SENSOR" THEN "bpf" ELSE None,
     cluster_name |-> IF c = "SENSOR" THEN None ELSE "cluster",
     iar_mode     |-> iar_mode,
     iar_runtime  |-> IF iar_mode = "socket" THEN "containerd" ELSE None,
     extra_values |-> extra_values]

DeploymentConfig(client_secret, components) ==
    [cid            |-> "CID",
     client_id      |-> "client",
     client_secret  |-> client_secret,
     cloud_region   |-> "eu-1",
     local_registry |-> "localhost:5000",
     components     |-> components,
     registry_token |-> ""]

\* contents of falcon-deployment-config.json that load_config_from_file can
\* return; None when the file is missing or unreadable
ConfigFiles ==
    { NoDict,
      DeploymentConfig("secret",
          [c \in {"SENSOR", "KAC", "IAR"} |->
              CASE c = "SENSOR" -> ComponentConfig(c, LATEST_IMAGE_TAG_KEYWORD, None, <<>>)
                [] c = "KAC"    -> ComponentConfig(c, T_7_2_0, None, OverlayImage(c))
                [] c = "IAR"    -> ComponentConfig(c, T_7_2_0, "socket", <<>>)]),
      DeploymentConfig("",
          [c \in {"SENSOR", "IAR"} |->
              CASE c = "SENSOR" -> ComponentConfig(c, T_7_2_0, None, <<>>)
                [] c = "IAR"    -> ComponentConfig(c, LATEST_IMAGE_TAG_KEYWORD, "watcher", <<>>)]) }

\* the tags typed into the wizard's "Image tag (or leave for latest)" prompt
WizardTags == {LATEST_IMAGE_TAG_KEYWORD, T_7_2_0}

\* wizard(): one ComponentConfig per selected component, keyed by name;
\* extra_values keeps its default {}
WizardConfigs(selected) ==
    { DeploymentConfig(secret,
          [c \in Range(selected) |->
              ComponentConfig(c, tag, IF c = "IAR" THEN "watcher" ELSE None, <<>>)])
        : secret \in {"", "secret"}, tag \in WizardTags }

(***************************************************************************)
(* State.                                                                  *)
(***************************************************************************)
VARIABLES
    pc,                        \* position in main() / execute_commands_wizard()
    args,                      \* parse_args(): no_sensitive
    selected_components,       \* main(): the components to process, in order
    cfg,                       \* main(): the DeploymentConfig, NoDict before it is loaded
    ci,                        \* main(): index of the planning loop in selected_components
    all_commands,              \* main(): the plan handed to the executor
    values_files,              \* the <release>-values.yml written, by component
    staged,                    \* images pulled and pushed: <<component, tag>>
    tag_queries,               \* the components whose tags/list was requested, one per request
    iteration,                 \* what the planning loop did in its latest iteration
    planned,                   \* one record per iteration that planned a component
    saved,                     \* the dictionaries written by save_config_to_file
    asked,                     \* times the whole-plan confirmation was asked
    report,                    \* how the executor ended: None while it has not
    final_command_str_list,    \* executor: the deployment commands for manual use
    gi,                        \* executor: index of the component group
    si,                        \* executor: index of the step in the group's phase
    started,                   \* executor: indices in all_commands of the steps started
    last_outcome,              \* executor: how the step started last ended
    all_verifications_passed,  \* executor: the flag of the current group
    warned,                    \* executor: components whose verification warning was printed
    exit_code,                 \* process exit status once pc = "exit"
    raised,                    \* the exception that reached __main__, None without one
    auth_calls,                \* main(): the authenticated calls made before the loop
    call                       \* one application of a helper function on its own

vars == <<pc, args, selected_components, cfg, ci, all_commands, values_files, staged,
          tag_queries, iteration, planned, saved, asked, report, final_command_str_list, gi, si,
          started, last_outcome, all_verifications_passed, warned, exit_code, raised,
          auth_calls, call>>

mainVars == <<args, selected_components, cfg, ci, all_commands, values_files, staged,
              tag_queries, iteration, planned, saved, auth_calls>>

execVars == <<asked, report, final_command_str_list, gi, si, started, last_outcome,
              all_verifications_passed, warned>>

\* the state main() starts in
InitMain ==
    /\ pc = "start"
    /\ args = [no_sensitive |-> FALSE]
    /\ selected_components = <<>>
    /\ cfg = NoDict
    /\ ci = 1
    /\ all_commands = <<>>
    /\ values_files = [c \in Components |-> NoDict]
    /\ staged = {}
    /\ tag_queries = <<>>
    /\ iteration = NoDict
    /\ planned = <<>>
    /\ saved = <<>>
    /\ asked = 0
    /\ report = None
    /\ final_command_str_list = <<>>
    /\ gi = 1
    /\ si = 1
    /\ started = <<>>
    /\ last_outcome = None
    /\ all_verifications_passed = TRUE
    /\ warned = {}
    /\ exit_code = 0
    /\ raised = None
    /\ auth_calls = <<>>

Init == InitMain /\ call = NoDict

\* sys.exit(code), or main() returning
Exit(code) == pc' = "exit" /\ exit_code' = code /\ UNCHANGED raised

\* the handlers of __main__: 130 for KeyboardInterrupt, 1 for everything else
exit_status(exception) == IF exception = "KeyboardInterrupt" THEN 130 ELSE 1

\* an exception leaves main() and reaches the handlers of __main__
Raise(exception) ==
    /\ pc' = "exit"
    /\ raised' = exception
    /\ exit_code' = exit_status(exception)

(***************************************************************************)
(* main(): selection, prerequisites, configuration, authentication.        *)
(***************************************************************************)
\* sorted(list(set(selected_components)), key=list(FalconComponent).index)
EnumOrder(S) == SelectSeqOf(FalconComponent, S)

\* --component given: the components in the order typed, repeats kept
ParseArgsComponent ==
    /\ pc = "start"
    /\ \E component \in SeqsUpTo(Components, MaxSel) \ {<<>>}, no_sensitive \in BOOLEAN :
          /\ args' = [no_sensitive |-> no_sensitive]
          /\ selected_components' = component
    /\ pc' = "prerequisites"
    /\ UNCHANGED <<cfg, ci, all_commands, values_files, staged, tag_queries, iteration,
                   planned, saved, auth_calls, exit_code, raised>>
    /\ UNCHANGED execVars
    /\ UNCHANGED call

\* no --component: choose_components() returns the chosen set in enum order
ChooseComponents ==
    /\ pc = "start"
    /\ \E chosen \in (SUBSET Components) \ {{}}, no_sensitive \in BOOLEAN :
          /\ args' = [no_sensitive |-> no_sensitive]
          /\ selected_components' = EnumOrder(chosen)
    /\ pc' = "prerequisites"
    /\ UNCHANGED <<cfg, ci, all_commands, values_files, staged, tag_queries, iteration,
                   planned, saved, auth_calls, exit_code, raised>>
    /\ UNCHANGED execVars
    /\ UNCHANGED call

MIN_HELM_VERSION == <<"3", ".", "0", ".", "0">>

MIN_KUBECTL_VERSION == <<"1", ".", "2", "0", ".", "0">>

\* tuple(map(int, s.split("."))) of a string the pattern \d+\.\d+\.\d+ matched
int_tuple(s) ==
    LET parts == Split(s, ".")
    IN  [i \in 1..Len(parts) |-> IntOf(parts[i])]

\* the body of the try in check_binary: the exception it raises, None when
\* it raises none. detected.ran: "<name> version" exited 0; detected.version:
\* what the pattern matched in its output, None without a match
version_check(min_version, detected) ==
    IF ~detected.ran THEN "CalledProcessError"
    ELSE IF /\ detected.version # NoTag
            /\ TupleLess(int_tuple(detected.version), int_tuple(min_version))
         THEN "PrerequisiteError"
         ELSE None

\* check_binary(name, min_version): the exception it raises, None when it
\* returns. "except Exception" around the version check catches whatever the
\* body raises and prints "Unable to verify ... continuing"
check_binary(found, min_version, detected) ==
    IF ~found THEN "PrerequisiteError"
    ELSE LET exception == IF min_version = NoTag THEN None
                          ELSE version_check(min_version, detected)
         IN  IF exception \in {"CalledProcessError", "PrerequisiteError"}
             THEN None
             ELSE exception

V_2_17_0 == <<"2", ".", "1", "7", ".", "0">>

V_3_12_1 == <<"3", ".", "1", "2", ".", "1">>

V_1_19_16 == <<"1", ".", "1", "9", ".", "1", "6">>

V_1_28_2 == <<"1", ".", "2", "8", ".", "2">>

\* what "<name> version" can answer: it fails, its output has no version,
\* or a version is found in it
Detections ==
    { [ran |-> FALSE, version |-> NoTag], [ran |-> TRUE, version |-> NoTag] }
    \cup { [ran |-> TRUE, version |-> v] : v \in {V_2_17_0, V_3_12_1, V_1_19_16, V_1_28_2} }

\* docker in PATH, check_binary for helm and kubectl, check_cluster; the
\* failure of setup_helm_repo is only a warning
CheckPrerequisites ==
    /\ pc = "prerequisites"
    /\ \E docker \in BOOLEAN, helm \in BOOLEAN, kubectl \in BOOLEAN, cluster \in BOOLEAN,
          helm_version \in Detections, kubectl_version \in Detections :
          IF ~docker
          THEN Raise("PrerequisiteError")
          ELSE IF check_binary(helm, MIN_HELM_VERSION, helm_version) # None
          THEN Raise(check_binary(helm, MIN_HELM_VERSION, helm_version))
          ELSE IF check_binary(kubectl, MIN_KUBECTL_VERSION, kubectl_version) # None
          THEN Raise(check_binary(kubectl, MIN_KUBECTL_VERSION, kubectl_version))
          ELSE IF ~cluster
          THEN Raise("ClusterConnectionError")
          ELSE pc' = "configure" /\ UNCHANGED <<exit_code, raised>>
    /\ UNCHANGED mainVars
    /\ UNCHANGED execVars
    /\ UNCHANGED call

\* mutant: save_sensitive is ignored, the secret is always written
save_config_to_file_always_sensitive(config, save_sensitive) ==
    [k \in DOMAIN config \ {"registry_token"} |-> config[k]]

\* save_config_to_file: asdict(config) without registry_token, and with an
\* empty client_secret when save_sensitive is false
save_config_to_file(config, save_sensitive) ==
    [k \in DOMAIN config \ {"registry_token"} |->
        IF k = "client_secret" /\ ~save_sensitive THEN "" ELSE config[k]]

\* load the configuration; without one, or when the operator asks to
\* re-configure, run the wizard and save its result
Configure ==
    /\ pc = "configure"
    /\ \E loaded \in ConfigFiles, reconfigure \in BOOLEAN :
          IF loaded = NoDict \/ reconfigure
          THEN \E wcfg \in WizardConfigs(selected_components) :
                  /\ cfg' = wcfg
                  /\ saved' = Append(saved, save_config_to_file(wcfg, ~args.no_sensitive))
          ELSE /\ cfg' = loaded
               /\ UNCHANGED saved
    /\ pc' = "authenticate"
    /\ UNCHANGED <<args, selected_components, ci, all_commands, values_files, staged,
                   tag_queries, iteration, planned, auth_calls, exit_code, raised>>
    /\ UNCHANGED execVars
    /\ UNCHANGED call

\* the pull tokens generate_pull_token can return
PullTokens == {"", "token"}

\* the authenticated calls main() makes before the loop, in order
AuthCalls == <<"get_oauth_token", "get_registry_credentials", "docker_login">>

\* mutant: the test after the prompt is missing
client_secret_missing_never(client_secret) == FALSE

\* "if not cfg.client_secret" after the prompt
client_secret_missing(client_secret) == client_secret = ""

\* prompt for a missing secret, get the OAuth token and the registry
\* credentials, read the pull token, log in to the registry; failed is the
\* call that fails, 0 when none does
Authenticate ==
    /\ pc = "authenticate"
    /\ \E entered \in {"", "secret"}, failed \in 0..Len(AuthCalls), token \in PullTokens :
          LET client_secret == IF cfg.client_secret = "" THEN entered ELSE cfg.client_secret
              made          == IF failed = 0 THEN Len(AuthCalls) ELSE failed
          IN  IF client_secret_missing(client_secret)
              THEN Raise("PrerequisiteError") /\ UNCHANGED <<cfg, auth_calls>>
              ELSE /\ auth_calls' = [k \in 1..made |->
                                        [call |-> AuthCalls[k], client_secret |-> client_secret]]
                   /\ cfg' = [cfg EXCEPT !.client_secret = client_secret,
                                         !.registry_token =
                                             IF made < Len(AuthCalls) THEN @ ELSE token]
                   /\ IF failed # 0
                      THEN Raise("APIError")
                      ELSE pc' = "probe" /\ UNCHANGED <<exit_code, raised>>
    /\ UNCHANGED <<args, selected_components, ci, all_commands, values_files, staged,
                   tag_queries, iteration, planned, saved>>
    /\ UNCHANGED execVars
    /\ UNCHANGED call

\* mutant: a failed probe ends the run without asking
after_probe_strict(reachable) == IF reachable THEN "plan" ELSE "exit"

\* where main() goes on after check_network_connectivity returned: to the
\* loop, or to the prompt "Network connectivity issues detected. Do you want
\* to continue anyway?"
after_probe(reachable) == IF reachable THEN "plan" ELSE "network_issues"

\* check_network_connectivity(cfg.cloud_region) returns: True when every
\* host answered, False when one did not or the region is unknown
CheckConnectivity ==
    /\ pc = "probe"
    /\ \E reachable \in BOOLEAN :
          IF after_probe(reachable) = "exit"
          THEN Exit(1)
          ELSE pc' = after_probe(reachable) /\ UNCHANGED <<exit_code, raised>>
    /\ UNCHANGED mainVars
    /\ UNCHANGED execVars
    /\ UNCHANGED call

\* the answer to the prompt: go on with the loop, or sys.exit(1)
ConfirmNetwork ==
    /\ pc = "network_issues"
    /\ \E continue \in BOOLEAN :
          IF continue
          THEN pc' = "plan" /\ UNCHANGED <<exit_code, raised>>
          ELSE Exit(1)
    /\ UNCHANGED mainVars
    /\ UNCHANGED execVars
    /\ UNCHANGED call

(***************************************************************************)
(* main(): the planning loop.                                              *)
(***************************************************************************)
\* download_and_push_image returns (local_image, component_cfg.image_tag)
local_image(parent_cfg, c) == parent_cfg.local_registry \o "/" \o release_name(c)

LogEntry(component, requested, result, target) ==
    [component |-> component,
     requested |-> requested,
     result    |-> result,
     target    |-> target]

\* mutant: the registry is asked whatever the configured tag is
resolve_target_tag_always_latest(image_tag, response) == get_latest_image_tag(response)

\* target_tag of one iteration: the configured tag, or for "latest" the
\* answer of get_latest_image_tag
resolve_target_tag(image_tag, response) ==
    IF image_tag = LATEST_IMAGE_TAG_KEYWORD THEN get_latest_image_tag(response) ELSE image_tag

\* mutant: "<" instead of "<=", the installed version is planned again
already_current_strict(target_tag, installed_tag) ==
    /\ installed_tag # NoTag
    /\ TupleLess(version_to_tuple(target_tag), version_to_tuple(installed_tag))

\* installed_tag and version_to_tuple(target_tag) <= version_to_tuple(installed_tag)
already_current(target_tag, installed_tag) ==
    /\ installed_tag # NoTag
    /\ TupleLeq(version_to_tuple(target_tag), version_to_tuple(installed_tag))

\* the commands one planned component adds to all_commands
component_commands(c, comp_cfg, is_new_install) ==
    (IF is_new_install THEN get_pre_install_commands(c, comp_cfg) ELSE <<>>)
    \o <<get_helm_command(c, comp_cfg, values_path(c))>>
    \o get_verification_commands(c, comp_cfg)

\* what one iteration of the loop read and did: is_new_install, the answer
\* of the registry (NoDict when it was not asked), the installed tag (None
\* when unknown or not read), the target tag (None when there is none)
IterationEntry(component, requested, result, target, is_new_install, installed_tag, response) ==
    [component      |-> component,
     requested      |-> requested,
     result         |-> result,
     target         |-> target,
     is_new_install |-> is_new_install,
     installed_tag  |-> installed_tag,
     response       |-> response]

\* mutant: an unresolved "latest" ends the run instead of the iteration
SkipComponent_unresolved_raises(entry) ==
    /\ iteration' = entry
    /\ IF entry.result = "unresolved"
       THEN Raise("VersionResolutionError") /\ UNCHANGED ci
       ELSE ci' = ci + 1 /\ UNCHANGED <<pc, exit_code, raised>>
    /\ UNCHANGED <<cfg, all_commands, values_files, staged, planned>>

\* the iteration ends with "continue": nothing is staged, written or queued
SkipComponent(entry) ==
    /\ iteration' = entry
    /\ ci' = ci + 1
    /\ UNCHANGED <<pc, cfg, all_commands, values_files, staged, planned, exit_code, raised>>

\* mutant: the component's configuration keeps the tag it was given
planned_config_keeps_tag(comp_cfg, target_tag, local_image_repo) ==
    [comp_cfg EXCEPT !.image_repo = local_image_repo]

\* comp_cfg of a planned component: image_tag is the target tag, which
\* download_and_push_image returns as actual_tag, and image_repo the local
\* image
planned_config(comp_cfg, target_tag, local_image_repo) ==
    [comp_cfg EXCEPT !.image_tag = target_tag, !.image_repo = local_image_repo]

\* one iteration of "for component in selected_components"
ProcessComponent ==
    /\ pc = "plan"
    /\ ci <= Len(selected_components)
    /\ LET component == selected_components[ci]
       IN  IF component \notin DOMAIN cfg.components
           THEN /\ SkipComponent(IterationEntry(component, NoTag, "no_config", NoTag, FALSE,
                                                NoTag, NoDict))
                /\ UNCHANGED tag_queries
           ELSE \* the registry answers only when asked for "latest", and the
                \* installed tag and the upgrade prompt exist only for a release
                \E is_new_install \in BOOLEAN, pushed \in BOOLEAN :
                \E response \in IF cfg.components[component].image_tag
                                       = LATEST_IMAGE_TAG_KEYWORD
                                 THEN TagResponses ELSE {[ok |-> TRUE, tags |-> <<>>]} :
                \E installed_tag \in IF is_new_install THEN {NoTag} ELSE InstalledTags :
                \E upgrade \in IF is_new_install THEN {TRUE} ELSE BOOLEAN :
                LET comp_cfg   == cfg.components[component]
                    requested  == comp_cfg.image_tag
                    target_tag == resolve_target_tag(requested, response)
                    new_cfg    == planned_config(comp_cfg, target_tag,
                                                 local_image(cfg, component))
                    answer     == IF requested = LATEST_IMAGE_TAG_KEYWORD
                                  THEN response ELSE NoDict
                    installed  == IF is_new_install THEN NoTag ELSE installed_tag
                    entry(result, target, read_tag) ==
                        IterationEntry(component, requested, result, target, is_new_install,
                                       read_tag, answer)
                IN  /\ tag_queries' = IF requested = LATEST_IMAGE_TAG_KEYWORD
                                      THEN Append(tag_queries, component)
                                      ELSE tag_queries
                    /\ IF target_tag = APIError
                       THEN /\ Raise("APIError")
                            /\ iteration' = entry("api_error", NoTag, NoTag)
                            /\ UNCHANGED <<cfg, ci, all_commands, values_files, staged,
                                           planned>>
                       ELSE IF target_tag = NoTag
                       THEN SkipComponent(entry("unresolved", NoTag, NoTag))
                       ELSE IF ~is_new_install /\ already_current(target_tag, installed_tag)
                       THEN SkipComponent(entry("already_current", target_tag, installed))
                       ELSE IF ~is_new_install /\ ~upgrade
                       THEN SkipComponent(entry("declined", target_tag, installed))
                       ELSE IF ~pushed
                       THEN \* ImageOperationError, after comp_cfg.image_tag = target_tag
                            /\ cfg' = [cfg EXCEPT !.components[component].image_tag = target_tag]
                            /\ Raise("ImageOperationError")
                            /\ iteration' = entry("image_error", target_tag, installed)
                            /\ UNCHANGED <<ci, all_commands, values_files, staged, planned>>
                       ELSE /\ cfg' = [cfg EXCEPT !.components[component] = new_cfg]
                            /\ staged' = staged \cup {<<component, target_tag>>}
                            /\ values_files' =
                                   [values_files EXCEPT ![component] =
                                       to_values_dict(component, new_cfg, cfg, args.no_sensitive)]
                            /\ all_commands' = all_commands
                                   \o component_commands(component, new_cfg, is_new_install)
                            /\ iteration' = entry("planned", target_tag, installed)
                            /\ planned' = Append(planned, LogEntry(component, requested,
                                                                   "planned", target_tag))
                            /\ ci' = ci + 1
                            /\ UNCHANGED <<pc, exit_code, raised>>
    /\ UNCHANGED <<args, selected_components, saved, auth_calls>>
    /\ UNCHANGED execVars
    /\ UNCHANGED call

\* mutant: the configuration is not saved before the executor is called
SaveAndExecute_unsaved ==
    /\ pc = "plan"
    /\ ci > Len(selected_components)
    /\ iteration' = NoDict
    /\ pc' = "wizard"
    /\ UNCHANGED <<args, selected_components, cfg, ci, all_commands, values_files, staged,
                   tag_queries, planned, saved, auth_calls, exit_code, raised>>
    /\ UNCHANGED execVars
    /\ UNCHANGED call

\* mutant: the executor is called while the loop still has components to
\* process
SaveAndExecute_early ==
    /\ pc = "plan"
    /\ saved' = Append(saved, save_config_to_file(cfg, ~args.no_sensitive))
    /\ iteration' = NoDict
    /\ pc' = "wizard"
    /\ UNCHANGED <<args, selected_components, cfg, ci, all_commands, values_files, staged,
                   tag_queries, planned, auth_calls, exit_code, raised>>
    /\ UNCHANGED execVars
    /\ UNCHANGED call

\* after the loop (its variables are out of use): save the configuration,
\* then call the executor
SaveAndExecute ==
    /\ pc = "plan"
    /\ ci > Len(selected_components)
    /\ saved' = Append(saved, save_config_to_file(cfg, ~args.no_sensitive))
    /\ iteration' = NoDict
    /\ pc' = "wizard"
    /\ UNCHANGED <<args, selected_components, cfg, ci, all_commands, values_files, staged,
                   tag_queries, planned, auth_calls, exit_code, raised>>
    /\ UNCHANGED execVars
    /\ UNCHANGED call

(***************************************************************************)
(* execute_commands_wizard(commands).                                      *)
(***************************************************************************)
\* the keys of grouped_commands in insertion order: the components of the
\* plan in order of first appearance
RECURSIVE group_keys(_)
group_keys(commands) ==
    IF commands = <<>> THEN <<>>
    ELSE LET rest == group_keys(SubSeq(commands, 1, Len(commands) - 1))
             c    == commands[Len(commands)].component
         IN  IF c \in Range(rest) THEN rest ELSE Append(rest, c)

\* grouped_commands[component], as indices into commands, in plan order
grouped_commands(commands, component) ==
    SelectSeqOf([i \in 1..Len(commands) |-> i],
                {i \in 1..Len(commands) : commands[i].component = component})

\* mutant: the filter "if not c.is_verification" is missing
deployment_steps_unfiltered(commands, component) == grouped_commands(commands, component)

deployment_steps(commands, component) ==
    SelectSeqOf(grouped_commands(commands, component),
                {i \in 1..Len(commands) : ~commands[i].is_verification})

verification_steps(commands, component) ==
    SelectSeqOf(grouped_commands(commands, component),
                {i \in 1..Len(commands) : commands[i].is_verification})

\* ' '.join(cmd.cmd_list)
cmd_str(cmd) == Join(" ", cmd.cmd_list)

\* mutant: the test "if not cmd.is_verification" is missing
manual_commands_unfiltered(commands) ==
    LET keys == group_keys(commands)
    IN  Concat([g \in 1..Len(keys) |->
                   LET steps == grouped_commands(commands, keys[g])
                   IN  [k \in 1..Len(steps) |-> cmd_str(commands[steps[k]])]])

\* the list built while the plan is displayed: the commands that are not
\* verifications, group by group
manual_commands(commands) ==
    LET keys == group_keys(commands)
    IN  Concat([g \in 1..Len(keys) |->
                   LET steps == deployment_steps(commands, keys[g])
                   IN  [k \in 1..Len(steps) |-> cmd_str(commands[steps[k]])]])

\* the executor returns; main() prints "All selected components processed."
\* and the process ends with status 0
Return(how) == report' = how /\ Exit(0)

\* mutant: the empty plan is not recognised
plan_is_empty_never(commands) == FALSE

\* "if not commands"
plan_is_empty(commands) == commands = <<>>

\* an empty plan returns at once; otherwise the plan is grouped and shown
ShowPlan ==
    /\ pc = "wizard"
    /\ IF plan_is_empty(all_commands)
       THEN Return("nothing") /\ UNCHANGED final_command_str_list
       ELSE /\ final_command_str_list' = manual_commands(all_commands)
            /\ pc' = "confirm"
            /\ UNCHANGED <<report, exit_code, raised>>
    /\ UNCHANGED <<asked, gi, si, started, last_outcome, all_verifications_passed, warned>>
    /\ UNCHANGED mainVars
    /\ UNCHANGED call

\* mutant: the return after the manual commands is missing
Declined_fallthrough ==
    /\ report' = "manual"
    /\ pc' = "deploy"
    /\ gi' = 1
    /\ si' = 1
    /\ UNCHANGED <<exit_code, raised>>

\* the plan is declined: the manual commands are printed and the function
\* returns
Declined == Return("manual") /\ UNCHANGED <<gi, si>>

\* "Do you want to execute this deployment plan now?"
ConfirmPlan ==
    /\ pc = "confirm"
    /\ asked' = asked + 1
    /\ \E yes \in BOOLEAN :
          IF yes
          THEN pc' = "deploy" /\ gi' = 1 /\ si' = 1 /\ UNCHANGED <<report, exit_code, raised>>
          ELSE Declined
    /\ UNCHANGED <<final_command_str_list, started, last_outcome, all_verifications_passed,
                   warned>>
    /\ UNCHANGED mainVars
    /\ UNCHANGED call

\* the component of the group being executed
group == group_keys(all_commands)[gi]

\* how a started process can end: Popen streams without a timeout, so the
\* process may never exit; subprocess.run has timeout=120
StreamOutcomes == {"ok", "nonzero", "notfound", "hang"}

CaptureOutcomes == {"ok", "nonzero", "notfound", "timeout"}

\* mutant: a non-zero exit never raises, as if every step had can_fail
deployment_handler_lenient(cmd, outcome) ==
    CASE outcome = "notfound" -> "not_found"
      [] OTHER                -> None

\* mutant: a non-zero exit always raises, can_fail is ignored
deployment_handler_strict(cmd, outcome) ==
    CASE outcome = "notfound" -> "not_found"
      [] outcome = "nonzero"  -> "aborted"
      [] OTHER                -> None

\* mutant: a missing executable is subject to can_fail like a non-zero exit
deployment_handler_missing_tolerated(cmd, outcome) ==
    CASE outcome = "notfound" /\ ~cmd.can_fail -> "not_found"
      [] outcome = "nonzero" /\ ~cmd.can_fail  -> "aborted"
      [] OTHER                                 -> None

\* mutant: a tolerated failure runs the step again
deployment_handler_retries(cmd, outcome) ==
    CASE outcome = "notfound"                 -> "not_found"
      [] outcome = "nonzero" /\ ~cmd.can_fail -> "aborted"
      [] outcome = "nonzero" /\ cmd.can_fail  -> "retry"
      [] OTHER                                -> None

\* the handler a deployment step ends in: None when the loop goes on to the
\* next step, else the handler that returns
deployment_handler(cmd, outcome) ==
    CASE outcome = "notfound"                 -> "not_found"
      [] outcome = "nonzero" /\ ~cmd.can_fail -> "aborted"
      [] OTHER                                -> None

\* one iteration of "for cmd in deployment_steps"
RunDeploymentStep ==
    /\ pc = "deploy"
    /\ si <= Len(deployment_steps(all_commands, group))
    /\ LET i   == deployment_steps(all_commands, group)[si]
           cmd == all_commands[i]
       IN  \E outcome \in StreamOutcomes :
              /\ started' = Append(started, i)
              /\ last_outcome' = outcome
              /\ IF outcome = "hang"
                 THEN pc' = "blocked" /\ UNCHANGED <<si, report, exit_code, raised>>
                 ELSE IF deployment_handler(cmd, outcome) = "retry"
                 THEN UNCHANGED <<pc, si, report, exit_code, raised>>
                 ELSE IF deployment_handler(cmd, outcome) # None
                 THEN Return(deployment_handler(cmd, outcome)) /\ UNCHANGED si
                 ELSE si' = si + 1 /\ UNCHANGED <<pc, report, exit_code, raised>>
    /\ UNCHANGED <<asked, final_command_str_list, gi, all_verifications_passed, warned>>
    /\ UNCHANGED mainVars
    /\ UNCHANGED call

\* the deployment loop of the group is over: "executed successfully"
DeploymentDone ==
    /\ pc = "deploy"
    /\ si > Len(deployment_steps(all_commands, group))
    /\ pc' = "verify"
    /\ si' = 1
    /\ all_verifications_passed' = TRUE
    /\ UNCHANGED <<asked, report, final_command_str_list, gi, started, last_outcome, warned>>
    /\ UNCHANGED mainVars
    /\ UNCHANGED call
    /\ UNCHANGED <<exit_code, raised>>

\* mutant: a failed or timed out verification returns like a failed deployment
verification_handler_aborting(cmd, outcome) ==
    CASE outcome = "ok"                    -> "passed"
      [] outcome \in {"nonzero", "timeout"} -> "aborted"
      [] OTHER                             -> "failed"

\* mutant: a missing executable ends the verification loop of the component
verification_handler_missing_breaks(cmd, outcome) ==
    CASE outcome = "ok"       -> "passed"
      [] outcome = "notfound" -> "break"
      [] OTHER                -> "failed"

\* the handler a verification step ends in: both except clauses only clear
\* all_verifications_passed, neither returns
verification_handler(cmd, outcome) ==
    CASE outcome = "ok" -> "passed"
      [] OTHER          -> "failed"

\* one iteration of "for cmd in verification_steps"
RunVerificationStep ==
    /\ pc = "verify"
    /\ si <= Len(verification_steps(all_commands, group))
    /\ LET i   == verification_steps(all_commands, group)[si]
           cmd == all_commands[i]
       IN  \E outcome \in (IF cmd.capture_output THEN CaptureOutcomes ELSE StreamOutcomes) :
              /\ started' = Append(started, i)
              /\ last_outcome' = outcome
              /\ IF outcome = "hang"
                 THEN /\ pc' = "blocked"
                      /\ UNCHANGED <<si, all_verifications_passed, report, exit_code, raised>>
                 ELSE IF verification_handler(cmd, outcome) = "aborted"
                 THEN Return("aborted") /\ UNCHANGED <<si, all_verifications_passed>>
                 ELSE IF verification_handler(cmd, outcome) = "break"
                 THEN /\ si' = Len(verification_steps(all_commands, group)) + 1
                      /\ all_verifications_passed' = FALSE
                      /\ UNCHANGED <<pc, report, exit_code, raised>>
                 ELSE /\ si' = si + 1
                      /\ all_verifications_passed' =
                             (all_verifications_passed
                                 /\ verification_handler(cmd, outcome) = "passed")
                      /\ UNCHANGED <<pc, report, exit_code, raised>>
    /\ UNCHANGED <<asked, final_command_str_list, gi, warned>>
    /\ UNCHANGED mainVars
    /\ UNCHANGED call

\* the verification loop of the group is over: warn, go to the next group
VerificationDone ==
    /\ pc = "verify"
    /\ si > Len(verification_steps(all_commands, group))
    /\ warned' = IF all_verifications_passed THEN warned ELSE warned \cup {group}
    /\ gi' = gi + 1
    /\ si' = 1
    /\ IF gi < Len(group_keys(all_commands))
       THEN pc' = "deploy" /\ UNCHANGED <<report, exit_code, raised>>
       ELSE Return("completed")
    /\ UNCHANGED <<asked, final_command_str_list, started, last_outcome,
                   all_verifications_passed>>
    /\ UNCHANGED mainVars
    /\ UNCHANGED call

Next ==
    \/ ParseArgsComponent
    \/ ChooseComponents
    \/ CheckPrerequisites
    \/ Configure
    \/ Authenticate
    \/ CheckConnectivity
    \/ ConfirmNetwork
    \/ ProcessComponent
    \/ SaveAndExecute
    \/ ShowPlan
    \/ ConfirmPlan
    \/ RunDeploymentStep
    \/ DeploymentDone
    \/ RunVerificationStep
    \/ VerificationDone

Spec == Init /\ [][Next]_vars

(***************************************************************************)
(* The uninstall plan.                                                     *)
(***************************************************************************)
\* the namespace generate_uninstall_plan looks the release up in: the one of
\* the saved configuration (file_cfg, the result of load_config_from_file)
\* when it has the component, else the default
uninstall_namespace(comp, file_cfg) ==
    IF file_cfg # NoDict /\ comp \in DOMAIN file_cfg.components
    THEN file_cfg.components[comp].namespace
    ELSE default_namespace(comp)

\* check_helm_release_exists: 'helm status' succeeds for the releases that
\* are active, given as the set of <<release, namespace>> pairs
check_helm_release_exists(active, release, namespace) == <<release, namespace>> \in active

\* the two commands appended for one component with an active release
UninstallCommands(comp, namespace) ==
    << Command(comp, "Uninstall Helm release '" \o release_name(comp) \o "'",
               <<"helm", "uninstall", release_name(comp), "-n", namespace>>,
               FALSE, FALSE, FALSE),
       Command(comp, "Delete namespace '" \o namespace \o "'",
               <<"kubectl", "delete", "namespace", namespace, "--ignore-not-found">>,
               FALSE, FALSE, TRUE) >>

\* mutant: the release is looked up in the default namespace whatever the
\* saved configuration says
generate_uninstall_plan_default_namespace(components, file_cfg, active) ==
    Concat([k \in 1..Len(components) |->
               IF check_helm_release_exists(active, release_name(components[k]),
                                            default_namespace(components[k]))
               THEN UninstallCommands(components[k], default_namespace(components[k]))
               ELSE <<>>])

generate_uninstall_plan(components, file_cfg, active) ==
    Concat([k \in 1..Len(components) |->
               LET comp      == components[k]
                   namespace == uninstall_namespace(comp, file_cfg)
               IN  IF ~check_helm_release_exists(active, release_name(comp), namespace)
                   THEN <<>>
                   ELSE UninstallCommands(comp, namespace)])

(***************************************************************************)
(* check_network_connectivity(region).                                     *)
(***************************************************************************)
\* two of the five regions of the table; every region lists three hosts
NETWORK_REQUIREMENTS ==
    [region \in {"us-1", "eu-1"} |->
        IF region = "us-1"
        THEN <<"ts01-b.cloudsink.net", "falcon.crowdstrike.com", "api.crowdstrike.com">>
        ELSE <<"ts01-lanner-lion.cloudsink.net", "falcon.eu-1.crowdstrike.com",
               "api.eu-1.crowdstrike.com">>]

\* ThreadPoolExecutor(max_workers=10)
max_workers == 10

\* check_host: (hostname, True, "OK") when the connection is made, else
\* (hostname, False, str(e)); it never raises
check_host(hostname, reachable) ==
    IF hostname \in reachable THEN <<hostname, TRUE, "OK">>
    ELSE <<hostname, FALSE, "timed out">>

\* mutant: a result replaces what was recorded before it
record_result_overwrites(failed_hosts, res) ==
    IF ~res[2] THEN << <<res[1], res[3]>> >> ELSE <<>>

\* the body of the as_completed loop: a failure is appended to failed_hosts
record_result(failed_hosts, res) ==
    IF ~res[2] THEN Append(failed_hosts, <<res[1], res[3]>>) ELSE failed_hosts

(***************************************************************************)
(* The helper functions applied on their own to inputs of bounded size.    *)
(***************************************************************************)
MaxVersionLen == 4

MaxTags == 3

\* the characters version strings are made of: digits, the two separators
\* and a letter
VersionChars == {"7", "1", "0", ".", "-", "g"}

VersionStrings ==
    SeqsUpTo(VersionChars, MaxVersionLen) \cup {T_rc, T_garbage, T_7_2_0, T_7_10_0}

\* the tags a tags/list answer is made of; the last one is the empty string
TagPool == {LATEST_IMAGE_TAG_KEYWORD, T_garbage, T_7_1_9, T_7_2_0, T_7_10_0, T_rc, <<>>}

TagLists == SeqsUpTo(TagPool, MaxTags)

\* iar_mode of a component: the wizard asks for it for the image analyzer
\* only; a configuration file may leave it out (the default None)
IarModes(c) == IF c = "IAR" THEN {"socket", "watcher", None} ELSE {None}

\* the configurations of component c the strategies are applied to: in its
\* default namespace or in another one
CallConfigs(c) ==
    { [ComponentConfig(c, T_7_2_0, iar_mode, <<>>) EXCEPT !.namespace = namespace] :
          iar_mode \in IarModes(c), namespace \in {default_namespace(c), "custom"} }

\* extra_values overlays: none, one that replaces the key holding the image
\* spec, one on a key no chart payload renders, one that replaces
\* crowdstrikeConfig and carries a secret of its own, one that enables the
\* daemonset, one with two keys
Overlays(c) ==
    << <<>>,
       OverlayImage(c),
       [tolerations |-> "NoSchedule"],
       [crowdstrikeConfig |-> [clientSecret |-> "overlaid"]],
       [daemonset |-> [enabled |-> TRUE]],
       [falcon |-> [cid |-> "OTHER"], clusterName |-> "renamed"] >>

\* the DeploymentConfig handed to to_values_dict
ParentConfigs ==
    { [DeploymentConfig(client_secret, <<>>) EXCEPT !.registry_token = registry_token] :
          client_secret \in {"", "secret"}, registry_token \in PullTokens }

\* the saved configurations an uninstall run can find: none, one that keeps
\* the sensor in a namespace of the operator's choice and has no admission
\* controller, one with all three components in their default namespaces
UninstallConfigs ==
    { NoDict,
      DeploymentConfig("secret",
          [c \in {"SENSOR", "IAR"} |->
              IF c = "SENSOR"
              THEN [ComponentConfig(c, T_7_2_0, None, <<>>) EXCEPT !.namespace = "custom"]
              ELSE ComponentConfig(c, T_7_2_0, "socket", <<>>)]),
      DeploymentConfig("",
          [c \in Components |->
              ComponentConfig(c, T_7_2_0, IF c = "IAR" THEN "watcher" ELSE None, <<>>)]) }

\* the releases 'helm status' can find: each component's release in its
\* default namespace or in the operator's namespace
ActiveReleaseSets ==
    SUBSET UNION { { <<release_name(c), default_namespace(c)>>, <<release_name(c), "custom">> } :
                       c \in Components }

\* the selections handed to generate_uninstall_plan: the --component list as
\* typed, or the answer of choose_components
UninstallSelections == SeqsUpTo(Components, MaxSel) \ {<<>>}

\* the regions check_network_connectivity is called with: cfg.cloud_region
\* comes from the wizard's choices or, unchecked, from the configuration
\* file
Regions == {"us-1", "eu-1", "ap-1"}

\* every host of the table
AllHosts == UNION {Range(NETWORK_REQUIREMENTS[region]) : region \in DOMAIN NETWORK_REQUIREMENTS}

programVars == <<pc, mainVars, execVars, exit_code, raised>>

\* one call is chosen: the function and its argument
InitCalls ==
    /\ InitMain
    /\ \/ \E v \in VersionStrings :
             call = [fn |-> "version_to_tuple", arg |-> v, done |-> FALSE, result |-> <<>>]
       \/ \E tags \in TagLists, ok \in BOOLEAN :
             /\ ok \/ tags = <<>>
             /\ call = [fn |-> "get_latest_image_tag", arg |-> [ok |-> ok, tags |-> tags],
                        done |-> FALSE, result |-> <<>>]
       \/ \E found \in BOOLEAN, min_version \in {NoTag, MIN_HELM_VERSION, MIN_KUBECTL_VERSION},
             detected \in Detections :
             call = [fn |-> "check_binary",
                     arg |-> [found |-> found, min_version |-> min_version,
                              detected |-> detected],
                     done |-> FALSE, result |-> None]
       \/ \E c \in Components, is_new_install \in BOOLEAN :
          \E comp_cfg \in CallConfigs(c) :
             call = [fn |-> "component_commands",
                     arg |-> [component |-> c, comp_cfg |-> comp_cfg,
                              is_new_install |-> is_new_install],
                     done |-> FALSE, result |-> <<>>]
       \/ \E c \in Components, parent_cfg \in ParentConfigs, no_sensitive \in BOOLEAN :
          \E iar_mode \in IarModes(c), k \in 1..Len(Overlays(c)) :
             call = [fn |-> "to_values_dict",
                     arg |-> [component |-> c,
                              comp_cfg |-> ComponentConfig(c, T_7_2_0, iar_mode, Overlays(c)[k]),
                              parent_cfg |-> parent_cfg,
                              no_sensitive |-> no_sensitive],
                     done |-> FALSE, result |-> <<>>]
       \/ \E components \in UninstallSelections, saved_cfg \in UninstallConfigs,
             active \in ActiveReleaseSets :
             call = [fn |-> "generate_uninstall_plan",
                     arg |-> [components |-> components, cfg |-> saved_cfg,
                              active |-> active],
                     done |-> FALSE, result |-> <<>>]
       \/ \E region \in Regions, reachable \in SUBSET AllHosts :
             call = [fn |-> "check_network_connectivity",
                     arg |-> [region |-> region, reachable |-> reachable],
                     done |-> FALSE, result |-> FALSE,
                     submitted |-> 0,
                     futures |-> [h \in AllHosts |-> "none"],
                     checks |-> [h \in AllHosts |-> 0],
                     results |-> [h \in AllHosts |-> <<>>],
                     failed_hosts |-> <<>>]

CallVersionToTuple ==
    /\ call.fn = "version_to_tuple"
    /\ ~call.done
    /\ call' = [call EXCEPT !.done = TRUE, !.result = version_to_tuple(call.arg)]
    /\ UNCHANGED programVars

CallGetLatestImageTag ==
    /\ call.fn = "get_latest_image_tag"
    /\ ~call.done
    /\ call' = [call EXCEPT !.done = TRUE, !.result = get_latest_image_tag(call.arg)]
    /\ UNCHANGED programVars

CallCheckBinary ==
    /\ call.fn = "check_binary"
    /\ ~call.done
    /\ call' = [call EXCEPT !.done = TRUE,
                            !.result = check_binary(call.arg.found, call.arg.min_version,
                                                    call.arg.detected)]
    /\ UNCHANGED programVars

\* the commands main() queues for one component it plans
CallComponentCommands ==
    /\ call.fn = "component_commands"
    /\ ~call.done
    /\ call' = [call EXCEPT !.done = TRUE,
                            !.result = component_commands(call.arg.component, call.arg.comp_cfg,
                                                          call.arg.is_new_install)]
    /\ UNCHANGED programVars

CallToValuesDict ==
    /\ call.fn = "to_values_dict"
    /\ ~call.done
    /\ call' = [call EXCEPT !.done = TRUE,
                            !.result = to_values_dict(call.arg.component, call.arg.comp_cfg,
                                                      call.arg.parent_cfg,
                                                      call.arg.no_sensitive)]
    /\ UNCHANGED programVars

CallGenerateUninstallPlan ==
    /\ call.fn = "generate_uninstall_plan"
    /\ ~call.done
    /\ call' = [call EXCEPT !.done = TRUE,
                            !.result = generate_uninstall_plan(call.arg.components,
                                                               call.arg.cfg, call.arg.active)]
    /\ UNCHANGED programVars

\* check_network_connectivity runs in steps: the main thread submits one
\* check per host, the workers of the pool run them, the main thread takes
\* the finished ones in whatever order as_completed yields them, then
\* returns.  futures[h] is "none", "pending", "running", "done" or "yielded".
hosts == NETWORK_REQUIREMENTS[call.arg.region]

Connecting == call.fn = "check_network_connectivity" /\ ~call.done

\* "if region not in network_reqs: return False"
NetUnknownRegion ==
    /\ Connecting
    /\ call.arg.region \notin DOMAIN NETWORK_REQUIREMENTS
    /\ call' = [call EXCEPT !.done = TRUE, !.result = FALSE]
    /\ UNCHANGED programVars

\* executor.submit(check_host, host), host by host
NetSubmit ==
    /\ Connecting
    /\ call.arg.region \in DOMAIN NETWORK_REQUIREMENTS
    /\ call.submitted < Len(hosts)
    /\ call' = [call EXCEPT !.submitted = @ + 1,
                            !.futures[hosts[call.submitted + 1]] = "pending"]
    /\ UNCHANGED programVars

\* a free worker of the pool takes a submitted check
NetWorkerStart ==
    /\ Connecting
    /\ Cardinality({h \in AllHosts : call.futures[h] = "running"}) < max_workers
    /\ \E h \in AllHosts :
          /\ call.futures[h] = "pending"
          /\ call' = [call EXCEPT !.futures[h] = "running"]
    /\ UNCHANGED programVars

\* check_host returns in the worker
NetWorkerFinish ==
    /\ Connecting
    /\ \E h \in AllHosts :
          /\ call.futures[h] = "running"
          /\ call' = [call EXCEPT !.futures[h] = "done",
                                  !.checks[h] = @ + 1,
                                  !.results[h] = check_host(h, call.arg.reachable)]
    /\ UNCHANGED programVars

\* one iteration of "for future in as_completed(futures)": any finished
\* future not yet yielded
NetCollect ==
    /\ Connecting
    /\ call.arg.region \in DOMAIN NETWORK_REQUIREMENTS
    /\ call.submitted = Len(hosts)
    /\ \E h \in AllHosts :
          /\ call.futures[h] = "done"
          /\ call' = [call EXCEPT !.futures[h] = "yielded",
                                  !.failed_hosts = record_result(@, call.results[h])]
    /\ UNCHANGED programVars

\* every future was yielded: "return False" if failed_hosts else "return True"
NetReturn ==
    /\ Connecting
    /\ call.arg.region \in DOMAIN NETWORK_REQUIREMENTS
    /\ call.submitted = Len(hosts)
    /\ \A h \in Range(hosts) : call.futures[h] = "yielded"
    /\ call' = [call EXCEPT !.done = TRUE, !.result = (call.failed_hosts = <<>>)]
    /\ UNCHANGED programVars

NextCalls ==
    \/ CallVersionToTuple
    \/ CallGetLatestImageTag
    \/ CallCheckBinary
    \/ CallComponentCommands
    \/ CallToValuesDict
    \/ CallGenerateUninstallPlan
    \/ NetUnknownRegion
    \/ NetSubmit
    \/ NetWorkerStart
    \/ NetWorkerFinish
    \/ NetCollect
    \/ NetReturn

SpecCalls == InitCalls /\ [][NextCalls]_vars

(***************************************************************************)
(* Properties of the helper functions.                                     *)
(***************************************************************************)
\* the tags of a list that "latest" can resolve to: not the literal
\* "latest", and starting with a digit
Candidates(tags) ==
    {t \in Range(tags) : t # LATEST_IMAGE_TAG_KEYWORD /\ t # <<>> /\ t[1] \in Digits}

\* C11: get_latest_image_tag returns a candidate of the list whose version
\* tuple no other candidate exceeds; it returns one whenever the list has a
\* candidate, and None when it has none.
C11_LatestIsGreatestCandidate ==
    (call.fn = "get_latest_image_tag" /\ call.done /\ call.arg.ok)
        => LET candidates == Candidates(call.arg.tags)
           IN  IF candidates = {}
               THEN call.result = NoTag
               ELSE /\ call.result \in candidates
                    /\ \A t \in candidates :
                          TupleLeq(version_to_tuple(t), version_to_tuple(call.result))

\* the part of a version string before its first '-'
BeforeDash(v) ==
    IF \A i \in 1..Len(v) : v[i] # "-" THEN v
    ELSE SubSeq(v, 1, (CHOOSE k \in 1..Len(v) :
                           v[k] = "-" /\ \A j \in 1..(k - 1) : v[j] # "-") - 1)

\* digits separated by single dots
WellFormed(p) ==
    /\ p # <<>>
    /\ \A i \in 1..Len(p) : p[i] \in Digits \cup {"."}
    /\ p[1] # "."
    /\ p[Len(p)] # "."
    /\ \A i \in 1..(Len(p) - 1) : ~(p[i] = "." /\ p[i + 1] = ".")

\* no number is written with a leading zero
Canonical(p) ==
    \A i \in 1..Len(p) :
        (p[i] = "0" /\ (i = 1 \/ p[i - 1] = ".")) => (i = Len(p) \/ p[i + 1] = ".")

DigitChar == <<"0", "1", "2", "3", "4", "5", "6", "7", "8", "9">>

RECURSIVE Decimal(_)
Decimal(n) ==
    IF n < 10 THEN <<DigitChar[n + 1]>>
    ELSE Decimal(n \div 10) \o <<DigitChar[(n % 10) + 1]>>

\* the numbers of a tuple in decimal, joined by dots
RECURSIVE RenderTuple(_)
RenderTuple(t) ==
    IF Len(t) = 1 THEN Decimal(t[1])
    ELSE Decimal(t[1]) \o <<".">> \o RenderTuple(Tail(t))

\* C14: version_to_tuple yields the numbers written between the dots of the
\* part before the first '-', and (0,) for every string not of that form;
\* 7.2.0-rc1 gives (7,2,0), garbage gives (0,), and (7,2,0) < (7,10,0).
C14_VersionTuple ==
    (call.fn = "version_to_tuple" /\ call.done)
        => LET p == BeforeDash(call.arg)
           IN  /\ IF WellFormed(p)
                  THEN /\ Len(call.result)
                              = Cardinality({i \in 1..Len(p) : p[i] = "."}) + 1
                       /\ \A i \in 1..Len(call.result) : call.result[i] \in Nat
                       /\ Canonical(p) => RenderTuple(call.result) = p
                  ELSE call.result = <<0>>
               /\ call.arg = T_rc => call.result = <<7, 2, 0>>
               /\ call.arg = T_garbage => call.result = <<0>>
               /\ call.arg = T_7_10_0
                      => /\ call.result = <<7, 10, 0>>
                         /\ TupleLess(<<7, 2, 0>>, call.result)
                         /\ ~TupleLess(call.result, <<7, 2, 0>>)

\* C14 witness: the suffix of 7.2.0-rc1 was removed and the rest parsed.
C14_Witness ==
    /\ call.fn = "version_to_tuple"
    /\ call.done
    /\ call.arg = T_rc
    /\ call.result = <<7, 2, 0>>

\* C19: check_binary raises PrerequisiteError exactly when the binary is not
\* in PATH or the version found in its output is below the minimum.
C19_LowVersionRaises ==
    (call.fn = "check_binary" /\ call.done)
        => ((call.result = "PrerequisiteError")
               <=> \/ ~call.arg.found
                   \/ /\ call.arg.min_version # NoTag
                      /\ call.arg.detected.ran
                      /\ call.arg.detected.version # NoTag
                      /\ TupleLess(int_tuple(call.arg.detected.version),
                                   int_tuple(call.arg.min_version)))

(***************************************************************************)
(* Properties of the executor.                                             *)
(***************************************************************************)
\* the step started last
LastCmd == all_commands[started[Len(started)]]

\* the steps of the plan that were never started
NotStarted == (1..Len(all_commands)) \ Range(started)

\* the step started last was a deployment step that ended this way
LastDeployment(outcome) ==
    /\ started # <<>>
    /\ ~LastCmd.is_verification
    /\ last_outcome = outcome

\* the step started last was a verification step that ended this way
LastVerification(outcome) ==
    /\ started # <<>>
    /\ LastCmd.is_verification
    /\ last_outcome = outcome

\* the order in which a run that nothing stops starts the steps: group by
\* group, the deployment steps of a group before its verification steps
ExecutionOrder ==
    LET keys     == group_keys(all_commands)
        steps    == [i \in 1..Len(all_commands) |-> i]
        Of(g, v) == LET Is(i) == /\ all_commands[i].component = keys[g]
                                 /\ all_commands[i].is_verification = v
                    IN  SelectSeq(steps, Is)
    IN  Concat([g \in 1..Len(keys) |-> Of(g, FALSE) \o Of(g, TRUE)])

\* C1: once a deployment step that does not tolerate failure has exited
\* non-zero, the executor has returned ("Aborting deployment.") and the
\* process has ended with that step as the last one started; every step
\* started is a step of the plan, so nothing is rolled back.
C1_IntolerantFailureAborts ==
    /\ (LastDeployment("nonzero") /\ ~LastCmd.can_fail)
           => (pc = "exit" /\ report = "aborted")
    /\ report = "aborted"
           => (pc = "exit" /\ LastDeployment("nonzero") /\ ~LastCmd.can_fail)
    /\ Range(started) \subseteq 1..Len(all_commands)

\* C1 witness: an intolerant step of the first of two groups failed, leaving
\* deployment and verification steps of its own component and every step of
\* the later component unstarted.
C1_Witness ==
    /\ report = "aborted"
    /\ Len(group_keys(all_commands)) = 2
    /\ LastCmd.component = group_keys(all_commands)[1]
    /\ \E i \in NotStarted :
          all_commands[i].component = LastCmd.component /\ ~all_commands[i].is_verification
    /\ \E i \in NotStarted :
          all_commands[i].component = LastCmd.component /\ all_commands[i].is_verification
    /\ \A i \in 1..Len(all_commands) :
          all_commands[i].component # LastCmd.component => i \in NotStarted

\* C2: a deployment step that tolerates failure and exits non-zero does not
\* end the run: the executor stands right behind it in the deployment loop of
\* the same component; steps are started in execution order without a gap,
\* and a run that is not ended by a handler has started every step of the
\* plan.
C2_TolerantFailureContinues ==
    /\ (LastDeployment("nonzero") /\ LastCmd.can_fail)
           => /\ pc = "deploy"
              /\ report = None
              /\ si > 1
              /\ deployment_steps(all_commands, group)[si - 1] = started[Len(started)]
    /\ started = SubSeq(ExecutionOrder, 1, Len(started))
    /\ report = "completed" => started = ExecutionOrder

\* C2 witness: a tolerated failure with later deployment steps still to run.
C2_Witness ==
    /\ LastDeployment("nonzero")
    /\ LastCmd.can_fail
    /\ pc = "deploy"
    /\ si <= Len(deployment_steps(all_commands, group))

\* C3: when the confirmation is declined, the executor has returned in
\* export mode and the process has ended; the plan is not empty, it was
\* confirmed once and no step of it was started.
C3_DeclinedRunsNothing ==
    report = "manual"
        => (pc = "exit" /\ started = <<>> /\ asked = 1 /\ all_commands # <<>>)

\* C3 witness: a plan with deployment and verification steps was declined.
C3_Witness ==
    /\ report = "manual"
    /\ \E i \in 1..Len(all_commands) : all_commands[i].is_verification
    /\ \E i \in 1..Len(all_commands) : ~all_commands[i].is_verification

\* the component groups in display order: by first appearance in the plan
GroupRank(c) ==
    CHOOSE i \in 1..Len(all_commands) :
        /\ all_commands[i].component = c
        /\ \A j \in 1..(i - 1) : all_commands[j].component # c

\* step i is listed before step j: its group comes first, or they share the
\* group and i is earlier in the plan
ListedBefore(i, j) ==
    \/ GroupRank(all_commands[i].component) < GroupRank(all_commands[j].component)
    \/ all_commands[i].component = all_commands[j].component /\ i < j

DeploymentOps == {i \in 1..Len(all_commands) : ~all_commands[i].is_verification}

\* C4: the manual command list has one entry per deployment operation of the
\* plan and none for a verification operation: its k-th entry is the command
\* line of the deployment operation that has k-1 deployment operations
\* listed before it.
C4_ManualListIsDeploymentOps ==
    report = "manual" =>
        /\ Len(final_command_str_list) = Cardinality(DeploymentOps)
        /\ \A i \in DeploymentOps :
              final_command_str_list[
                  Cardinality({j \in DeploymentOps : ListedBefore(j, i)}) + 1]
                  = Join(" ", all_commands[i].cmd_list)

\* C4 witness: a declined plan of two groups with verification operations.
C4_Witness ==
    /\ report = "manual"
    /\ Len(group_keys(all_commands)) = 2
    /\ Len(final_command_str_list) < Len(all_commands)
    /\ Len(final_command_str_list) > 2

\* the executor was entered
ExecutorEntered == pc \in {"confirm", "deploy", "verify", "blocked"} \/ report # None

\* C5: with an empty plan the executor asks nothing and starts nothing, and
\* it ends reporting that there is nothing to do.
C5_EmptyPlanNothingToDo ==
    /\ all_commands = <<>> =>
          /\ asked = 0
          /\ started = <<>>
          /\ ExecutorEntered => (report = "nothing" /\ pc = "exit")
    /\ report = "nothing" => all_commands = <<>>

\* C5 witness: the executor returned on an empty plan.
C5_Witness ==
    /\ report = "nothing"
    /\ pc = "exit"
    /\ all_commands = <<>>
    /\ Len(selected_components) = 2

(***************************************************************************)
(* Properties of the plan.                                                 *)
(***************************************************************************)
\* C6: the operations of the plan are in enumeration order of their
\* components (Sensor, AdmissionController, RuntimeAnalyzer).
C6_PlanInEnumOrder ==
    \A i, j \in 1..Len(all_commands) :
        i < j => EnumIndex(all_commands[i].component) <= EnumIndex(all_commands[j].component)

\* what the executor does after a verification step failed this way: it has
\* not returned; inside the loop the flag is cleared and the executor stands
\* right behind the step; after the loop the component is warned about and
\* the executor is at the first deployment step of the next group, or has
\* completed the plan
VerificationFailureHandled(outcome) ==
    LastVerification(outcome) =>
        /\ report \in {None, "completed"}
        /\ pc \in {"verify", "deploy", "exit"}
        /\ pc = "verify" =>
              /\ ~all_verifications_passed
              /\ si > 1
              /\ verification_steps(all_commands, group)[si - 1] = started[Len(started)]
        /\ pc # "verify" => LastCmd.component \in warned
        /\ pc = "deploy" =>
              /\ si = 1
              /\ gi > 1
              /\ group_keys(all_commands)[gi - 1] = LastCmd.component
        /\ pc = "exit" => report = "completed"

\* C7: a verification step that exits non-zero or times out never ends the
\* run: it is recorded as a warning for its component and the executor goes
\* on with the next step; the flag of a group starts out clean, and only
\* components whose verification ran are warned about.
C7_VerificationFailureWarnsOnly ==
    /\ VerificationFailureHandled("nonzero")
    /\ VerificationFailureHandled("timeout")
    /\ (pc = "verify" /\ si = 1) => all_verifications_passed
    /\ warned \subseteq {all_commands[i].component :
                            i \in {j \in Range(started) : all_commands[j].is_verification}}

\* C7 witness: the last verification step of the first group failed and the
\* executor is at the deployment steps of the second group.
C7_Witness ==
    /\ LastVerification("timeout")
    /\ pc = "deploy"
    /\ gi = 2
    /\ warned = {group_keys(all_commands)[1]}

\* C8 as claimed: after a verification step whose executable is not found,
\* no further verification step of the same component is started.
C8_NotFoundStopsVerification ==
    [][ (LastVerification("notfound") /\ started' # started)
            => ~ /\ all_commands[started'[Len(started')]].is_verification
                 /\ all_commands[started'[Len(started')]].component = LastCmd.component ]_vars

\* C8 as amended: a verification step whose executable is not found is
\* handled like any failed verification step: a warning for its component,
\* the remaining verification steps of the component and the later
\* components are still run.
C8_NotFoundVerificationWarnsOnly == VerificationFailureHandled("notfound")

\* C8 witness: the executable of a verification step was not found and the
\* executor stands at a further verification step of the same component.
C8_Witness ==
    /\ LastVerification("notfound")
    /\ pc = "verify"
    /\ si <= Len(verification_steps(all_commands, group))
    /\ all_commands[verification_steps(all_commands, group)[si]].component = LastCmd.component

\* C9: a deployment step whose executable is not found ends the run, whether
\* or not the step tolerates failure, and it is the last step started.
C9_DeploymentNotFoundAborts ==
    /\ LastDeployment("notfound") => (pc = "exit" /\ report = "not_found")
    /\ report = "not_found" => (pc = "exit" /\ LastDeployment("notfound"))

\* C9 witness: the executable of a step that tolerates failure was not found
\* and the rest of the plan was not started.
C9_Witness ==
    /\ report = "not_found"
    /\ LastCmd.can_fail
    /\ Cardinality(NotStarted) > 2

\* the top-level key of the payload that holds the image spec
ImageKey(c) == IF c = "SENSOR" THEN "node" ELSE "image"

\* the iterations of the planning loop that planned a component with a
\* concrete requested tag
PinnedPlanned ==
    {k \in 1..Len(planned) : planned[k].requested # LATEST_IMAGE_TAG_KEYWORD}

\* component c was never found configured with "latest" when it was planned
NeverLatest(c) ==
    \A k \in 1..Len(planned) :
        planned[k].component = c => planned[k].requested # LATEST_IMAGE_TAG_KEYWORD

\* a concrete requested tag is the target, the tag of the staged image and
\* the tag kept in the configuration; an iteration that finds a concrete tag
\* does not ask the registry, and a component planned with concrete tags only
\* was never asked about
PinnedTagResolved ==
    /\ \A k \in PinnedPlanned :
          /\ planned[k].target = planned[k].requested
          /\ <<planned[k].component, planned[k].requested>> \in staged
          /\ cfg.components[planned[k].component].image_tag = planned[k].requested
          /\ NeverLatest(planned[k].component)
                 => planned[k].component \notin Range(tag_queries)
    /\ (iteration # NoDict /\ iteration.requested # LATEST_IMAGE_TAG_KEYWORD
           /\ iteration.result \notin {"no_config"})
           => /\ iteration.target \in {NoTag, iteration.requested}
              /\ iteration.result # "unresolved"
              /\ iteration.result # "api_error"

\* C10 as claimed: a concrete requested tag is resolved unchanged without
\* asking the registry, and the payload written for the component carries it.
C10_PinnedTagEverywhere ==
    /\ PinnedTagResolved
    /\ \A k \in PinnedPlanned :
          PayloadImage(planned[k].component, values_files[planned[k].component]).tag
              = planned[k].requested

\* C10 as amended: a concrete requested tag is resolved unchanged without
\* asking the registry; the payload carries it unless the extra_values
\* overlay of the component replaces the key that holds the image spec.
C10_PinnedTagUnlessOverlaid ==
    /\ PinnedTagResolved
    /\ \A k \in PinnedPlanned :
          ImageKey(planned[k].component)
                  \notin DOMAIN cfg.components[planned[k].component].extra_values
              => PayloadImage(planned[k].component, values_files[planned[k].component]).tag
                     = planned[k].requested

\* C10 witness: a component with a concrete tag and no overlay on the image
\* key was planned, and the registry was never asked.
C10_Witness ==
    /\ tag_queries = <<>>
    /\ \E k \in PinnedPlanned :
          /\ planned[k].requested = T_7_2_0
          /\ ImageKey(planned[k].component)
                 \notin DOMAIN cfg.components[planned[k].component].extra_values
          /\ PayloadImage(planned[k].component, values_files[planned[k].component]).tag = T_7_2_0

(***************************************************************************)
(* Properties of the planning loop and of what precedes it.                *)
(***************************************************************************)
\* the loop is about to run one iteration
PlanningStep == pc = "plan" /\ ci <= Len(selected_components)

\* the iteration asked the registry for "latest" and the answer holds no
\* candidate
NoCandidate(it) ==
    /\ it.requested = LATEST_IMAGE_TAG_KEYWORD
    /\ it.response # NoDict
    /\ it.response.ok
    /\ Candidates(it.response.tags) = {}

\* C12: an iteration whose "latest" finds no candidate stages nothing, writes
\* no payload and queues nothing; the run is not ended and the loop goes on
\* to the next selected component.
C12_UnresolvedSkipsOnlyThat ==
    [][(PlanningStep /\ NoCandidate(iteration'))
           => /\ pc' = "plan"
              /\ ci' = ci + 1
              /\ UNCHANGED <<all_commands, staged, values_files, planned, exit_code, raised>>]_vars

\* C12 witness: one component was planned, the next found no candidate, and
\* the loop is still running.
C12_Witness ==
    /\ pc = "plan"
    /\ iteration # NoDict
    /\ NoCandidate(iteration)
    /\ Len(planned) = 1
    /\ planned[1].component # iteration.component
    /\ raised = None

\* the iteration found a release installed with a known tag, and a target
\* whose version tuple does not exceed the installed one
AtOrBelowInstalled(it) ==
    /\ ~it.is_new_install
    /\ it.installed_tag # NoTag
    /\ it.target # NoTag
    /\ TupleLeq(version_to_tuple(it.target), version_to_tuple(it.installed_tag))

\* C13: on the upgrade path, a target at or below the known installed tag
\* queues nothing and stages nothing, and the loop goes on; 7.2.0 and 7.1.9
\* against an installed 7.2.0 are such targets.
C13_NeverDowngrade ==
    [][/\ (PlanningStep /\ AtOrBelowInstalled(iteration'))
              => /\ pc' = "plan"
                 /\ ci' = ci + 1
                 /\ UNCHANGED <<all_commands, staged, values_files, planned>>
       /\ already_current(T_7_2_0, T_7_2_0)
       /\ already_current(T_7_1_9, T_7_2_0)
       /\ ~already_current(T_7_10_0, T_7_2_0)]_vars

\* C13 witness: after one component was planned, 7.2.0 was the target for a
\* release running 7.10.0.
C13_Witness ==
    /\ pc = "plan"
    /\ iteration # NoDict
    /\ AtOrBelowInstalled(iteration)
    /\ iteration.target = T_7_2_0
    /\ iteration.installed_tag = T_7_10_0
    /\ planned # <<>>

\* the planning loop has completed and the executor was called
AfterPlanning == pc = "wizard" \/ ExecutorEntered

\* C15 as claimed: no write of the configuration holds the client secret or
\* the pull token.
C15_NoSecretNoTokenSaved ==
    \A k \in 1..Len(saved) :
        /\ "registry_token" \notin DOMAIN saved[k]
        /\ saved[k].client_secret = ""

\* C15 as amended: no write holds the pull token; with --no-sensitive the
\* client secret is written empty, without it the secret is written.
C15_TokenNeverSecretUnlessAllowed ==
    /\ \A k \in 1..Len(saved) :
          /\ "registry_token" \notin DOMAIN saved[k]
          /\ args.no_sensitive => saved[k].client_secret = ""
    /\ (AfterPlanning /\ ~args.no_sensitive)
           => /\ saved[Len(saved)].client_secret = cfg.client_secret
              /\ cfg.client_secret # ""

\* C15 witness: with --no-sensitive, a secret and a pull token in use, the
\* configuration was written twice.
C15_Witness ==
    /\ Len(saved) = 2
    /\ args.no_sensitive
    /\ cfg.client_secret = "secret"
    /\ cfg.registry_token = "token"
    /\ saved[2].client_secret = ""

\* C16 as claimed: the configuration is written at most twice, right after
\* the wizard or at the successful completion of the run.
C16_SavedOnlyOnSuccess ==
    [][/\ Len(saved') <= 2
       /\ saved' # saved => (pc = "configure" \/ report' \in {"completed", "nothing"})]_vars

\* C16 as amended: the configuration is written at most twice, at most once
\* before the planning loop has completed (by the wizard) and once when it
\* has completed, before the plan is shown: a run whose plan is declined or
\* aborted has written it, a run ended before that by an error has not.
C16_SavedAfterWizardAndAfterPlanning ==
    /\ Len(saved) <= 2
    /\ pc \in {"start", "prerequisites", "configure"} => saved = <<>>
    /\ pc \in {"authenticate", "probe", "network_issues", "plan"} => Len(saved) <= 1
    /\ (pc = "exit" /\ report = None) => Len(saved) <= 1
    /\ AfterPlanning
           => /\ saved # <<>>
              /\ saved[Len(saved)].components = cfg.components

\* C16 witness: the plan was declined after the wizard and the planning loop
\* had each written the configuration.
C16_Witness ==
    /\ report = "manual"
    /\ Len(saved) = 2
    /\ started = <<>>

\* C17: every authenticated call is made with a non-empty client secret; a
\* configuration whose secret is empty has led to no call, and once the
\* prompt has been answered with nothing the run has ended with
\* PrerequisiteError.
C17_SecretBeforeAuthenticatedCalls ==
    /\ \A k \in 1..Len(auth_calls) : auth_calls[k].client_secret # ""
    /\ (auth_calls # <<>> \/ tag_queries # <<>>) => cfg.client_secret # ""
    /\ tag_queries # <<>> => Len(auth_calls) = Len(AuthCalls)
    /\ (cfg # NoDict /\ cfg.client_secret = "")
           => /\ auth_calls = <<>>
              /\ tag_queries = <<>>
              /\ \/ pc = "authenticate"
                 \/ pc = "exit" /\ raised = "PrerequisiteError" /\ exit_code = 1

\* C17 witness: the secret was still empty after the prompt and the run ended
\* before any call.
C17_Witness ==
    /\ pc = "exit"
    /\ raised = "PrerequisiteError"
    /\ cfg # NoDict
    /\ cfg.client_secret = ""
    /\ auth_calls = <<>>

C20_NoStepStartedTwice ==
    /\ \A i, j \in 1..Len(started) : i # j => started[i] # started[j]
    /\ Range(started) \subseteq 1..Len(all_commands)

\* C20 witness: the run completed although a step failed; each step of the
\* plan was started once.
C20_Witness ==
    /\ report = "completed"
    /\ Len(started) = Len(all_commands)
    /\ \E i \in 1..Len(all_commands) : all_commands[i].can_fail
    /\ last_outcome = "timeout"

(***************************************************************************)
(* Properties of the order of execution.                                   *)
(***************************************************************************)
\* component c appears in the plan before component d does: an operation of
\* c has no operation of d in front of it
AppearsFirst(c, d) ==
    \E p \in 1..Len(all_commands) :
        /\ all_commands[p].component = c
        /\ \A q \in 1..p : all_commands[q].component # d

\* step i of the plan is due before step j: they share the group and i is a
\* deployment step and j is not, or they share group and phase and i is
\* earlier in the plan; or the group of i appears first in the plan
RunsBefore(i, j) ==
    IF all_commands[i].component = all_commands[j].component
    THEN \/ ~all_commands[i].is_verification /\ all_commands[j].is_verification
         \/ /\ all_commands[i].is_verification = all_commands[j].is_verification
            /\ i < j
    ELSE AppearsFirst(all_commands[i].component, all_commands[j].component)

\* C21: execution is sequential. Each step started is due after the one
\* started before it: groups in plan order, in a group the deployment steps
\* in plan order before the verification steps in plan order. The steps due
\* before the step started last are as many as the steps started before it,
\* so they are exactly those: no step was passed over, and a group is done
\* before the next one begins. A step that has not ended is the last one
\* started, and no step can be started while it runs.
C21_StrictlySequential ==
    /\ \A k \in 1..(Len(started) - 1) : RunsBefore(started[k], started[k + 1])
    /\ started # <<>> =>
          Cardinality({i \in 1..Len(all_commands) : RunsBefore(i, started[Len(started)])})
              = Len(started) - 1
    /\ last_outcome = "hang" <=> pc = "blocked"
    /\ pc = "blocked" => ~ENABLED (RunDeploymentStep \/ RunVerificationStep)

\* C21 witness: a plan in which one component was planned twice ran to its
\* end, so the steps were not started in the order of the plan: the
\* deployment steps of the second planning came before the verification
\* steps of the first.
C21_Witness ==
    /\ report = "completed"
    /\ Len(started) = Len(all_commands)
    /\ \E k \in 1..(Len(started) - 1) : started[k] > started[k + 1]

(***************************************************************************)
(* Properties of the operations of the plan.                               *)
(***************************************************************************)
\* the apply operation: helm upgrade --install
IsApply(cmd) == SubSeq(cmd.cmd_list, 1, 3) = <<"helm", "upgrade", "--install">>

\* an operation queued ahead of the apply operation
IsPreInstall(cmd) == ~cmd.is_verification /\ ~IsApply(cmd)

\* the positions in the plan of the operations of component c
OpsOf(c) == {i \in 1..Len(all_commands) : all_commands[i].component = c}

\* C22: the operations of a planned component are, in plan order, its
\* pre-install operations, then exactly one apply operation, then its
\* verification operations; a component planned for upgrade (a release
\* exists) has no pre-install operation.
C22_PreApplyVerifyPerComponent ==
    /\ \A c \in Components :
          OpsOf(c) # {} =>
             \E a \in OpsOf(c) :
                /\ IsApply(all_commands[a])
                /\ \A i \in OpsOf(c) :
                      /\ i < a => IsPreInstall(all_commands[i])
                      /\ i > a => all_commands[i].is_verification
    /\ (iteration # NoDict /\ iteration.result = "planned" /\ ~iteration.is_new_install)
           => \A i \in OpsOf(iteration.component) : ~IsPreInstall(all_commands[i])

\* the commands queued for one component have been computed
Queued == call # NoDict /\ call.fn = "component_commands" /\ call.done

\* the three pod-security labels in the order they are applied
PodSecurityLabels ==
    << "pod-security.kubernetes.io/enforce=privileged",
       "pod-security.kubernetes.io/audit=privileged",
       "pod-security.kubernetes.io/warn=privileged" >>

IsCreateNamespace(cmd) == SubSeq(cmd.cmd_list, 1, 3) = <<"kubectl", "create", "namespace">>

\* C23: a new install of the sensor or of the image analyzer starts with
\* exactly four pre-install operations on the component's namespace: create
\* namespace, which tolerates failure, then the labels enforce, audit and
\* warn, which do not; the admission controller has no pre-install
\* operation; of all operations queued only create namespace tolerates
\* failure.
C23_PreInstallOperations ==
    Queued =>
        LET c   == call.arg.component
            ns  == call.arg.comp_cfg.namespace
            pre == SelectSeq(call.result, IsPreInstall)
        IN  /\ (call.arg.is_new_install /\ c \in {"SENSOR", "IAR"}) =>
                  /\ Len(pre) = 4
                  /\ SubSeq(call.result, 1, 4) = pre
                  /\ pre[1].cmd_list = <<"kubectl", "create", "namespace", ns>>
                  /\ pre[1].can_fail
                  /\ \A k \in 1..3 :
                        /\ pre[k + 1].cmd_list
                               = <<"kubectl", "label", "ns", "--overwrite", ns,
                                   PodSecurityLabels[k]>>
                        /\ ~pre[k + 1].can_fail
            /\ c = "KAC" => pre = <<>>
            /\ \A i \in 1..Len(call.result) :
                  call.result[i].can_fail <=> IsCreateNamespace(call.result[i])

\* C23 witness: the operations of a new install of the image analyzer in a
\* namespace of the operator's choice.
C23_Witness ==
    /\ Queued
    /\ call.arg.component = "IAR"
    /\ call.arg.is_new_install
    /\ call.arg.comp_cfg.namespace = "custom"
    /\ Len(call.result) = 7
    /\ call.result[1].can_fail

IsVerification(cmd) == cmd.is_verification

\* the workload kind the claim gives a component; for an image analyzer
\* without a mode it names none
ClaimedWorkloadKinds(c, comp_cfg) ==
    CASE c = "SENSOR"                              -> {"daemonset"}
      [] c = "KAC"                                 -> {"deployment"}
      [] c = "IAR" /\ comp_cfg.iar_mode = "socket"  -> {"daemonset"}
      [] c = "IAR" /\ comp_cfg.iar_mode = "watcher" -> {"deployment"}
      [] OTHER                                     -> {"daemonset", "deployment"}

\* C24: the verification operations of a component are the last two
\* operations queued for it: one rollout-wait on <kind>/<release> in the
\* component's namespace, then one log-tail in that namespace; the kind is
\* daemonset for the sensor, deployment for the admission controller, and
\* for the image analyzer daemonset in "socket" mode and deployment in
\* "watcher" mode. No component has the workload kind none, so the
\* rollout-wait is never left out.
C24_VerificationOperations ==
    Queued =>
        LET c   == call.arg.component
            ns  == call.arg.comp_cfg.namespace
            n   == Len(call.result)
            ver == SelectSeq(call.result, IsVerification)
        IN  /\ Len(ver) = 2
            /\ SubSeq(call.result, n - 1, n) = ver
            /\ \E kind \in ClaimedWorkloadKinds(c, call.arg.comp_cfg) :
                  ver[1].cmd_list = <<"kubectl", "rollout", "status",
                                      kind \o "/" \o release_name(c), "-n", ns,
                                      "--timeout=120s">>
            /\ SubSeq(ver[2].cmd_list, 1, 3) = <<"kubectl", "logs", "-n=" \o ns>>
            /\ get_workload_type(c, call.arg.comp_cfg) # None

\* C24 witness: the verification operations of an image analyzer in
\* "socket" mode, which waits for a daemonset.
C24_Witness ==
    /\ Queued
    /\ call.arg.component = "IAR"
    /\ call.arg.comp_cfg.iar_mode = "socket"
    /\ \E i \in 1..Len(call.result) :
          /\ call.result[i].is_verification
          /\ call.result[i].cmd_list[4] = "daemonset/falcon-imageanalyzer"

(***************************************************************************)
(* Properties of the payloads.                                             *)
(***************************************************************************)
\* the payload of the image analyzer has been rendered
RenderedIAR ==
    call # NoDict /\ call.fn = "to_values_dict" /\ call.done /\ call.arg.component = "IAR"

\* values[key]["enabled"] is set and true
Enabled(values, key) ==
    /\ key \in DOMAIN values
    /\ "enabled" \in DOMAIN values[key]
    /\ values[key].enabled = TRUE

\* values["crowdstrikeConfig"] has the field
HasConfigField(values, field) ==
    /\ "crowdstrikeConfig" \in DOMAIN values
    /\ field \in DOMAIN values.crowdstrikeConfig

\* C25 as claimed: in "socket" mode the payload has the daemonset enabled,
\* the deployment disabled and the agentRuntime field; in "watcher" mode the
\* deployment enabled, the daemonset disabled and no agentRuntime field; the
\* two are never both enabled.
C25_FlagsMatchMode ==
    RenderedIAR =>
        LET values == call.result
            mode   == call.arg.comp_cfg.iar_mode
        IN  /\ mode = "socket" =>
                  /\ Enabled(values, "daemonset")
                  /\ ~Enabled(values, "deployment")
                  /\ HasConfigField(values, "agentRuntime")
            /\ mode = "watcher" =>
                  /\ Enabled(values, "deployment")
                  /\ ~Enabled(values, "daemonset")
                  /\ ~HasConfigField(values, "agentRuntime")
            /\ ~(Enabled(values, "daemonset") /\ Enabled(values, "deployment"))

\* C25 as amended: the same for every key of the payload that the
\* extra_values overlay does not replace: "daemonset" and "deployment" carry
\* the flag of the mode, "crowdstrikeConfig" has agentRuntime (the configured
\* runtime) in "socket" mode only; a key of the overlay has the overlay's
\* value, whatever the mode.
C25_FlagsMatchModeUnlessOverlaid ==
    RenderedIAR =>
        LET values == call.result
            mode   == call.arg.comp_cfg.iar_mode
            extra  == call.arg.comp_cfg.extra_values
            flag(key, on) == key \in DOMAIN extra \/ values[key] = [enabled |-> on]
        IN  /\ mode = "socket" =>
                  /\ flag("daemonset", TRUE)
                  /\ flag("deployment", FALSE)
                  /\ "crowdstrikeConfig" \notin DOMAIN extra =>
                        /\ HasConfigField(values, "agentRuntime")
                        /\ values.crowdstrikeConfig.agentRuntime
                               = call.arg.comp_cfg.iar_runtime
            /\ mode = "watcher" =>
                  /\ flag("deployment", TRUE)
                  /\ flag("daemonset", FALSE)
                  /\ "crowdstrikeConfig" \notin DOMAIN extra =>
                        ~HasConfigField(values, "agentRuntime")
            /\ DOMAIN extra \cap {"daemonset", "deployment"} = {} =>
                  ~(Enabled(values, "daemonset") /\ Enabled(values, "deployment"))
            /\ \A key \in DOMAIN extra \cap {"daemonset", "deployment", "crowdstrikeConfig"} :
                  values[key] = extra[key]

\* C25 witness: a "socket" payload without an overlay: daemonset enabled,
\* deployment disabled, the runtime in crowdstrikeConfig.
C25_Witness ==
    /\ RenderedIAR
    /\ call.arg.comp_cfg.iar_mode = "socket"
    /\ call.arg.comp_cfg.extra_values = <<>>
    /\ Enabled(call.result, "daemonset")
    /\ call.result.deployment = [enabled |-> FALSE]
    /\ call.result.crowdstrikeConfig.agentRuntime = "containerd"

\* C26 as claimed: with no_sensitive the payload of the image analyzer has no
\* clientSecret field, whatever the mode and the extra_values overlay;
\* without no_sensitive it has the field.
C26_NoSecretField ==
    RenderedIAR =>
        (call.arg.no_sensitive <=> ~HasConfigField(call.result, "clientSecret"))

\* C26 as amended: with no_sensitive the payload is the same whatever the
\* client secret of the parent configuration is, for every mode and overlay.
\* Where the overlay has no "crowdstrikeConfig" key, the payload has no
\* clientSecret field with no_sensitive and has the parent's secret in it
\* without; an overlay with that key replaces the block, and its own
\* clientSecret, if it has one, is in the payload.
C26_SecretOnlyFromOverlay ==
    RenderedIAR =>
        LET values == call.result
            extra  == call.arg.comp_cfg.extra_values
        IN  /\ call.arg.no_sensitive =>
                  \A client_secret \in {"", "secret", "another"} :
                      values = to_values_dict("IAR", call.arg.comp_cfg,
                                   [call.arg.parent_cfg EXCEPT !.client_secret = client_secret],
                                   TRUE)
            /\ "crowdstrikeConfig" \notin DOMAIN extra =>
                  /\ call.arg.no_sensitive => ~HasConfigField(values, "clientSecret")
                  /\ ~call.arg.no_sensitive =>
                        /\ HasConfigField(values, "clientSecret")
                        /\ values.crowdstrikeConfig.clientSecret
                               = call.arg.parent_cfg.client_secret
            /\ "crowdstrikeConfig" \in DOMAIN extra =>
                  values.crowdstrikeConfig = extra.crowdstrikeConfig

\* C26 witness: a "socket" payload rendered with no_sensitive from a parent
\* configuration that holds a secret: crowdstrikeConfig has the runtime and
\* no clientSecret.
C26_Witness ==
    /\ RenderedIAR
    /\ call.arg.no_sensitive
    /\ call.arg.parent_cfg.client_secret = "secret"
    /\ call.arg.comp_cfg.iar_mode = "socket"
    /\ HasConfigField(call.result, "agentRuntime")
    /\ ~HasConfigField(call.result, "clientSecret")

\* a payload has been rendered
Rendered == call # NoDict /\ call.fn = "to_values_dict" /\ call.done

\* what the variant renders before the overlay is merged: the payload of
\* the same configuration without extra_values
RenderedValues ==
    to_values_dict(call.arg.component, [call.arg.comp_cfg EXCEPT !.extra_values = <<>>],
                   call.arg.parent_cfg, call.arg.no_sensitive)

\* C27: for the three variants, what is rendered has the pull token of the
\* parent configuration in its image spec whenever that token is not empty;
\* the overlay is merged last and shallowly: the keys of the payload are the
\* rendered keys and the keys of the overlay, a key of the overlay has the
\* overlay's value, whole, and every other key has its rendered value.
C27_PullTokenAndOverlay ==
    Rendered =>
        LET c      == call.arg.component
            values == call.result
            extra  == call.arg.comp_cfg.extra_values
            token  == call.arg.parent_cfg.registry_token
        IN  /\ token # "" =>
                  /\ "registryConfigJSON" \in DOMAIN PayloadImage(c, RenderedValues)
                  /\ PayloadImage(c, RenderedValues).registryConfigJSON = token
            /\ (token # "" /\ ImageKey(c) \notin DOMAIN extra) =>
                  PayloadImage(c, values).registryConfigJSON = token
            /\ DOMAIN values = DOMAIN RenderedValues \cup DOMAIN extra
            /\ \A key \in DOMAIN extra : values[key] = extra[key]
            /\ \A key \in DOMAIN RenderedValues \ DOMAIN extra :
                  values[key] = RenderedValues[key]

\* C27 witness: the overlay of a sensor payload replaces the whole "node"
\* block, so the payload has the overlay's image spec without "enabled" and
\* "backend", and keeps the rendered "falcon" block; the parent has a pull
\* token.
C27_Witness ==
    /\ Rendered
    /\ call.arg.component = "SENSOR"
    /\ call.arg.parent_cfg.registry_token = "token"
    /\ call.arg.comp_cfg.extra_values = OverlayImage("SENSOR")
    /\ call.result.node = OverlayImage("SENSOR").node
    /\ "backend" \notin DOMAIN call.result.node
    /\ call.result.falcon = [cid |-> "CID"]

(***************************************************************************)
(* Properties of the connectivity probe and of the exit status.            *)
(***************************************************************************)
\* C28: the connectivity probe is advisory. When it returns the run has not
\* ended: it goes on to the loop or, after a failed probe, stands at the
\* confirmation prompt. From the prompt the run goes on to the loop when
\* the operator accepts and ends with status 1 when the operator declines,
\* and it does nothing else. While the probe or the prompt is pending
\* nothing is queued and no step has been started.
C28_ProbeIsAdvisory ==
    /\ pc = "probe" =>
          /\ ~ENABLED (CheckConnectivity /\ pc' = "exit")
          /\ ENABLED (CheckConnectivity /\ pc' = "network_issues")
          /\ ENABLED (CheckConnectivity /\ pc' = "plan")
    /\ pc = "network_issues" =>
          /\ exit_code = 0
          /\ raised = None
          /\ ENABLED (ConfirmNetwork /\ pc' = "plan" /\ exit_code' = 0)
          /\ ENABLED (ConfirmNetwork /\ pc' = "exit" /\ exit_code' = 1)
          /\ ~ENABLED (ConfirmNetwork /\ pc' = "exit" /\ exit_code' # 1)
          /\ ~ENABLED (ConfirmNetwork /\ pc' \notin {"plan", "exit"})
    /\ pc \in {"probe", "network_issues"} =>
          /\ Len(auth_calls) = Len(AuthCalls)
          /\ all_commands = <<>>
          /\ started = <<>>
          /\ report = None
    /\ (all_commands # <<>> \/ started # <<>>)
           => pc \notin {"start", "prerequisites", "configure", "authenticate", "probe",
                         "network_issues"}

\* C28 witness: the probe failed after the registry login and the run
\* stands at the prompt.
C28_Witness ==
    /\ pc = "network_issues"
    /\ Len(auth_calls) = Len(AuthCalls)
    /\ cfg.registry_token = "token"
    /\ exit_code = 0

\* C29: the process ends with status 0 only when no error was raised and the
\* executor did not give up on a deployment step; with status 1 after every
\* error, a deployment step that aborted the plan included; with status 130
\* after an interrupt, and only then.
C29_ExitStatus ==
    pc = "exit" =>
        /\ exit_code \in {0, 1, 130}
        /\ exit_code = 0 =>
              /\ raised = None
              /\ report \in {"completed", "nothing", "manual"}
        /\ (raised \notin {None, "KeyboardInterrupt"} \/ report \in {"aborted", "not_found"})
               => exit_code = 1
        /\ raised = "KeyboardInterrupt" <=> exit_code = 130

\* a verification step was started and its process has not exited
VerificationRunning ==
    /\ started # <<>>
    /\ LastCmd.is_verification
    /\ pc = "blocked"

\* C30: a verification step whose process does not exit never holds up the
\* executor, whether its output is captured or streamed: while such a step
\* is running the executor can still take its next step, which abandons the
\* process and records the warning.
C30_VerificationIsAbandoned == VerificationRunning => ENABLED Next

(***************************************************************************)
(* C31: the uninstall plan.                                                *)
(***************************************************************************)
\* an uninstall plan has been generated
UninstallPlanned == call # NoDict /\ call.fn = "generate_uninstall_plan" /\ call.done

\* the namespace the claim names for component c: the saved configuration's
\* if present, else the component's default
ClaimedNamespace(c) ==
    LET saved_cfg == call.arg.cfg
    IN  IF saved_cfg = NoDict THEN default_namespace(c)
        ELSE IF c \in DOMAIN saved_cfg.components THEN saved_cfg.components[c].namespace
        ELSE default_namespace(c)

HasActiveRelease(c) == <<release_name(c), ClaimedNamespace(c)>> \in call.arg.active

C32_OneApplyPerComponent ==
    \A c \in Components :
        /\ Cardinality({i \in OpsOf(c) : IsApply(all_commands[i])}) <= 1
        /\ \A i, j \in OpsOf(c) :
              all_commands[i].cmd_list = all_commands[j].cmd_list => i = j

(***************************************************************************)
(* C33: planning is over before the plan is executed.                      *)
(***************************************************************************)
\* download_and_push_image raised ImageOperationError in the loop
StagingFailed == raised = "ImageOperationError"

\* C33: a plan operation is started only when the loop over the selected
\* components is over; once image staging
\* has failed no operation has been started and none can be, whatever was
\* queued for earlier components; an apply operation that was started names
\* the payload file of its component, which has been written.
C33_PlanningBeforeExecution ==
    /\ started # <<>> =>
          /\ ci > Len(selected_components)
          /\ pc # "plan"
    /\ StagingFailed =>
          /\ started = <<>>
          /\ pc = "exit"
          /\ ~ENABLED (RunDeploymentStep \/ RunVerificationStep)
    /\ \A k \in 1..Len(started) :
          LET cmd == all_commands[started[k]]
          IN  IsApply(cmd) =>
                 /\ cmd.cmd_list[Len(cmd.cmd_list)] = release_name(cmd.component) \o "-values.yml"
                 /\ values_files[cmd.component] # NoDict

\* C33 witness: image staging failed for the second selected component
\* after the first one was planned: its operations are queued, its payload
\* file is written, and nothing was started.
C33_Witness ==
    /\ StagingFailed
    /\ ci = 2
    /\ Len(planned) = 1
    /\ planned[1].component = selected_components[1]
    /\ selected_components[2] # selected_components[1]
    /\ all_commands # <<>>
    /\ values_files[selected_components[1]] # NoDict
    /\ started = <<>>
    /\ exit_code = 1

(***************************************************************************)
(* C34: the connectivity probe.                                            *)
(***************************************************************************)
Probed == call # NoDict /\ call.fn = "check_network_connectivity"

\* the endpoints required for the region the probe was called with
RequiredEndpoints ==
    IF call.arg.region \in DOMAIN NETWORK_REQUIREMENTS
    THEN Range(NETWORK_REQUIREMENTS[call.arg.region])
    ELSE {}

\* C34: the result of check_network_connectivity is a function of its input
\* alone, whatever the order in which the concurrent checks complete and are
\* collected: for a known region it is true if and only if every required
\* endpoint is reachable, and each required endpoint was checked exactly
\* once (never more than once while the probe runs, no other host at all);
\* for an unknown region it is false and no check was made.
C34_OrderIndependentProbe ==
    Probed =>
        /\ \A h \in AllHosts :
              call.checks[h] <= (IF h \in RequiredEndpoints THEN 1 ELSE 0)
        /\ call.done =>
              /\ call.result <=> /\ RequiredEndpoints # {}
                                 /\ RequiredEndpoints \subseteq call.arg.reachable
              /\ \A h \in RequiredEndpoints : call.checks[h] = 1
              /\ call.arg.region \notin DOMAIN NETWORK_REQUIREMENTS =>
                    /\ ~call.result
                    /\ \A h \in AllHosts : call.checks[h] = 0 /\ call.futures[h] = "none"

\* C34 witness: the probe of a known region has returned false; two
\* endpoints failed and the one submitted last was collected first.
C34_Witness ==
    /\ Probed
    /\ call.done
    /\ call.arg.region = "eu-1"
    /\ ~call.result
    /\ Len(call.failed_hosts) = 2
    /\ call.failed_hosts[1][1] = NETWORK_REQUIREMENTS["eu-1"][3]
    /\ call.failed_hosts[2][1] = NETWORK_REQUIREMENTS["eu-1"][1]
    /\ NETWORK_REQUIREMENTS["eu-1"][2] \in call.arg.reachable

(***************************************************************************)
(* C35: the tags of the saved configuration.                               *)
(***************************************************************************)
\* how an iteration ends that skips its component
SkipResults == {"no_config", "unresolved", "already_current", "declined"}

\* the configuration record written last
LastSaved == saved[Len(saved)]

\* C35: an iteration that plans a component configured with "latest" puts
\* the resolved concrete version, a tag of the registry's answer, in the
\* component's configuration and touches no other component; an iteration
\* that skips its component (no configuration, no candidate, already
\* current, upgrade declined) leaves every tag as it was; the record saved
\* when the loop is over holds the components as the loop left them.
C35_ResolvedTagSaved ==
    /\ [][PlanningStep =>
            LET c == selected_components[ci]
            IN  /\ iteration'.result \in SkipResults => cfg' = cfg
                /\ iteration'.result = "planned" =>
                      /\ cfg'.components[c].image_tag = iteration'.target
                      /\ iteration'.target # LATEST_IMAGE_TAG_KEYWORD
                      /\ cfg.components[c].image_tag = LATEST_IMAGE_TAG_KEYWORD =>
                            iteration'.target \in Range(iteration'.response.tags)
                      /\ cfg.components[c].image_tag # LATEST_IMAGE_TAG_KEYWORD =>
                            iteration'.target = cfg.components[c].image_tag
                      /\ \A d \in DOMAIN cfg.components \ {c} :
                            cfg'.components[d] = cfg.components[d]]_vars
    /\ [](AfterPlanning =>
            /\ saved # <<>>
            /\ LastSaved.components = cfg.components
            /\ \A k \in 1..Len(planned) :
                  LastSaved.components[planned[k].component].image_tag
                      # LATEST_IMAGE_TAG_KEYWORD)

\* C35 witness: after the wizard two components were selected with
\* "latest"; the first was planned and the second was skipped; the record
\* saved after the loop has the resolved version for the first and still
\* "latest" for the second.
C35_Witness ==
    /\ AfterPlanning
    /\ Len(saved) = 2
    /\ Len(selected_components) = 2
    /\ Len(planned) = 1
    /\ planned[1].component = selected_components[1]
    /\ planned[1].requested = LATEST_IMAGE_TAG_KEYWORD
    /\ selected_components[2] # selected_components[1]
    /\ saved[1].components[selected_components[1]].image_tag = LATEST_IMAGE_TAG_KEYWORD
    /\ saved[1].components[selected_components[2]].image_tag = LATEST_IMAGE_TAG_KEYWORD
    /\ LastSaved.components[selected_components[1]].image_tag = planned[1].target
    /\ planned[1].target # LATEST_IMAGE_TAG_KEYWORD
    /\ LastSaved.components[selected_components[2]].image_tag = LATEST_IMAGE_TAG_KEYWORD

====
